---- MODULE Spec2Model ----
(***************************************************************************)
(* A model of sir-robin's "blurple" formatter (bot/utils/blurple_formatter *)
(* .py) and of the cog that runs it (bot/exts/blurple_formatter.py).       *)
(*                                                                         *)
(* Program text is modelled by TLA+ strings, so the helpers below work on  *)
(* the same characters as the Python code.  A syntax tree node is a record *)
(* whose field t holds the name of its ast class.                          *)
(***************************************************************************)
EXTENDS Integers, Sequences, FiniteSets, TLC

VARIABLES
    source,   \* the module-level global `source` of blurple_formatter.py
    lit,      \* one call of _write_str_avoiding_backslashes
    ex,       \* one call of unparse on an expression
    pk,       \* one run of the generator indent
    thr,      \* the calls of blurplify, one per (worker) thread
    cmd,      \* the invocations of the cog's blurplify command
    lock,     \* BlurpleFormatter.lock
    jam,      \* the guild and the calls made on it by the code jam utilities
    inv       \* the return expression of blurplify, step by step

vars == <<source, lit, ex, pk, thr, cmd, lock, jam, inv>>

(***************************************************************************)
(* Bounds of the model.                                                    *)
(***************************************************************************)
\* random draws of space() that one call distinguishes (by call site)
NumSpaceDraws == 2
\* random draws of randrange(2, 5) that one call distinguishes (by block)
NumIndentDraws == 2
\* longest string literal value tried
MaxStrLen == 3
\* most sibling statements given to one run of the packer
MaxStmts == 3
\* calls of blurplify, and invocations of the command, in flight together
NumCalls == 2

(***************************************************************************)
(* Python's str operations, on TLA+ strings.                               *)
(***************************************************************************)
Min(a, b) == IF a < b THEN a ELSE b
Max(a, b) == IF a < b THEN b ELSE a

CharAt(s, i) == SubSeq(s, i, i)

\* s[-1], for a non-empty s
LastChar(s) == SubSeq(s, Len(s), Len(s))

\* s[a:b] for 0 <= a, 0 <= b: Python clamps both ends to len(s)
PySlice(s, a, b) ==
    LET lo == Min(a, Len(s))
        hi == Min(b, Len(s))
    IN  IF lo >= hi THEN "" ELSE SubSeq(s, lo + 1, hi)

\* sub in s
Contains(s, sub) ==
    \E i \in 1..(Len(s) - Len(sub) + 1) : SubSeq(s, i, i + Len(sub) - 1) = sub

\* k * " "
RECURSIVE Spaces(_)
Spaces(k) == IF k <= 0 THEN "" ELSE " " \o Spaces(k - 1)

\* sep.join(parts)
RECURSIVE Join(_, _)
Join(sep, parts) ==
    IF parts = <<>> THEN ""
    ELSE IF Len(parts) = 1 THEN parts[1]
    ELSE parts[1] \o sep \o Join(sep, Tail(parts))

\* s.lstrip(): the leading whitespace removed
RECURSIVE lstrip(_)
lstrip(s) ==
    IF s = "" THEN ""
    ELSE IF CharAt(s, 1) \in {" ", "\n", "\t"} THEN lstrip(SubSeq(s, 2, Len(s)))
    ELSE s

\* s.splitlines(): no last empty line after a final line break, [] for ""
RECURSIVE SplitFrom(_, _, _)
SplitFrom(s, st, i) ==
    IF i > Len(s)
    THEN IF st > Len(s) THEN <<>> ELSE <<SubSeq(s, st, Len(s))>>
    ELSE IF CharAt(s, i) = "\n"
         THEN <<SubSeq(s, st, i - 1)>> \o SplitFrom(s, i + 1, i + 1)
         ELSE SplitFrom(s, st, i + 1)

splitlines(s) == SplitFrom(s, 1, 1)

\* s.replace(old, new) for a one-character old
RECURSIVE ReplaceChar(_, _, _)
ReplaceChar(s, old, new) ==
    IF s = "" THEN ""
    ELSE (IF CharAt(s, 1) = old THEN new ELSE CharAt(s, 1))
         \o ReplaceChar(SubSeq(s, 2, Len(s)), old, new)

(***************************************************************************)
(* Randomness.  space() draws randrange(1, 3) and every block draws        *)
(* randrange(2, 5) for its indentation.  One call's draws are a table r:   *)
(* r.sp is indexed by the call site of space() within the rendering case,  *)
(* r.ind by the line of the block and its branch.                          *)
(***************************************************************************)
Draws == [sp : [1..NumSpaceDraws -> 1..2], ind : [1..NumIndentDraws -> 2..4]]

\* space(), at call site k
space(r, k) == Spaces(r.sp[(k % NumSpaceDraws) + 1])

\* randrange(2, 5), for branch b of the block statement on line l
indent_width(r, l, b) == r.ind[((l + b) % NumIndentDraws) + 1]

(***************************************************************************)
(* String literals.                                                        *)
(***************************************************************************)
SINGLE_QUOTES == <<"'", "\"">>
MULTI_QUOTES == <<"\"\"\"", "'''">>
ALL_QUOTES == SINGLE_QUOTES \o MULTI_QUOTES

InSeq(x, seq) == \E i \in 1..Len(seq) : seq[i] = x

\* escape_char, the inner function of _str_literal_helper
escape_char(c, escape_special_whitespace) ==
    IF ~escape_special_whitespace /\ c \in {"\n", "\t"} THEN c
    ELSE IF c = "\\" THEN "\\\\"
    ELSE IF c = "\n" THEN "\\n"
    ELSE IF c = "\t" THEN "\\t"
    ELSE c

RECURSIVE EscapeAll(_, _)
EscapeAll(s, esw) ==
    IF s = "" THEN ""
    ELSE escape_char(CharAt(s, 1), esw) \o EscapeAll(SubSeq(s, 2, Len(s)), esw)

\* the body of repr(string), between its quotes
RECURSIVE ReprBody(_, _)
ReprBody(s, q) ==
    IF s = "" THEN ""
    ELSE LET c == CharAt(s, 1)
         IN  (IF c = "\\" THEN "\\\\"
              ELSE IF c = "\n" THEN "\\n"
              ELSE IF c = "\t" THEN "\\t"
              ELSE IF c = q THEN "\\" \o c
              ELSE c) \o ReprBody(SubSeq(s, 2, Len(s)), q)

\* the quote of a repr that always takes the double quote
ReprQuote_double(s) == "\""

\* repr(string)[0]: the quote repr chooses
ReprQuote(s) == IF Contains(s, "'") /\ ~Contains(s, "\"") THEN "\"" ELSE "'"

\* _str_literal_helper without the filter that drops the quotes occurring in
\* the string
str_literal_helper_unfiltered(string, quote_types, escape_special_whitespace) ==
    LET escaped_string == EscapeAll(string, escape_special_whitespace)
        IsMulti(q) == InSeq(q, MULTI_QUOTES)
        pq1 == IF Contains(escaped_string, "\n")
               THEN SelectSeq(quote_types, IsMulti) ELSE quote_types
        Key(q) == CharAt(q, 1) = LastChar(escaped_string)
        NotKey(q) == ~Key(q)
        sorted == SelectSeq(pq1, NotKey) \o SelectSeq(pq1, Key)
    IN  IF pq1 = <<>>
        THEN LET rq == ReprQuote(string)
                 HasRq(q) == Contains(q, rq)
                 cands == SelectSeq(quote_types, HasRq)
             IN  [string |-> ReprBody(string, rq),
                  quotes |-> <<IF cands = <<>> THEN rq ELSE cands[1]>>,
                  assert_ok |-> TRUE]
        ELSE IF escaped_string = ""
        THEN [string |-> escaped_string, quotes |-> pq1, assert_ok |-> TRUE]
        ELSE IF CharAt(sorted[1], 1) = LastChar(escaped_string)
        THEN [string |-> SubSeq(escaped_string, 1, Len(escaped_string) - 1)
                         \o "\\" \o LastChar(escaped_string),
              quotes |-> sorted,
              assert_ok |-> Len(sorted[1]) = 3]
        ELSE [string |-> escaped_string, quotes |-> sorted, assert_ok |-> TRUE]

\* _str_literal_helper: the pair (string literal to write, possible quotes)
str_literal_helper(string, quote_types, escape_special_whitespace) ==
    LET escaped_string == EscapeAll(string, escape_special_whitespace)
        NotIn(q) == ~Contains(escaped_string, q)
        IsMulti(q) == InSeq(q, MULTI_QUOTES)
        pq1 == IF Contains(escaped_string, "\n")
               THEN SelectSeq(quote_types, IsMulti) ELSE quote_types
        pq2 == SelectSeq(pq1, NotIn)
        Key(q) == CharAt(q, 1) = LastChar(escaped_string)
        NotKey(q) == ~Key(q)
        \* list.sort is stable: the quotes with key False, then those with True
        sorted == SelectSeq(pq2, NotKey) \o SelectSeq(pq2, Key)
    IN  IF pq2 = <<>>
        THEN LET rq == ReprQuote(string)
                 HasRq(q) == Contains(q, rq)
                 cands == SelectSeq(quote_types, HasRq)
             IN  [string |-> ReprBody(string, rq),
                  quotes |-> <<IF cands = <<>> THEN rq ELSE cands[1]>>,
                  assert_ok |-> TRUE]
        ELSE IF escaped_string = ""
        THEN [string |-> escaped_string, quotes |-> pq2, assert_ok |-> TRUE]
        ELSE IF CharAt(sorted[1], 1) = LastChar(escaped_string)
        THEN [string |-> SubSeq(escaped_string, 1, Len(escaped_string) - 1)
                         \o "\\" \o LastChar(escaped_string),
              quotes |-> sorted,
              assert_ok |-> Len(sorted[1]) = 3]
        ELSE [string |-> escaped_string, quotes |-> sorted, assert_ok |-> TRUE]

\* _write_str_avoiding_backslashes
write_str_avoiding_backslashes(string, quote_types, r) ==
    LET h == str_literal_helper(string, quote_types, FALSE)
        quote_type == h.quotes[1]
    IN  quote_type \o space(r, 0) \o h.string \o space(r, 1) \o quote_type

(***************************************************************************)
(* How Python reads a string literal: the value that the literal text      *)
(* denotes.  The delimiter is the triple quote when the text starts with   *)
(* one, and a backslash escapes the character that follows it.             *)
(***************************************************************************)
RECURSIVE Unescape(_)
Unescape(s) ==
    IF s = "" THEN ""
    ELSE IF CharAt(s, 1) = "\\" /\ Len(s) >= 2
    THEN LET c == CharAt(s, 2)
         IN  (IF c \in {"\\", "'", "\""} THEN c
              ELSE IF c = "n" THEN "\n"
              ELSE IF c = "t" THEN "\t"
              ELSE IF c = "\n" THEN ""
              ELSE "\\" \o c) \o Unescape(SubSeq(s, 3, Len(s)))
    ELSE CharAt(s, 1) \o Unescape(SubSeq(s, 2, Len(s)))

literal_value(text) ==
    LET q == IF Len(text) >= 6 /\ InSeq(SubSeq(text, 1, 3), MULTI_QUOTES) THEN 3 ELSE 1
    IN  Unescape(SubSeq(text, q + 1, Len(text) - q))

(***************************************************************************)
(* Exceptions.  A rendering case that raises yields a text that holds      *)
(* RAISE_MARK followed by the exception's name; concatenation carries the  *)
(* mark outwards, and blurplify raises when its text holds one.  The mark  *)
(* is a form feed, which no program text of the model contains.            *)
(***************************************************************************)
RAISE_MARK == "\f"

Raise(exception) == RAISE_MARK \o exception \o RAISE_MARK

HasRaised(text) == Contains(text, RAISE_MARK)

\* the exception named after the first mark of the text
RaisedIn(text) ==
    LET i == CHOOSE k \in 1..Len(text) :
                 /\ CharAt(text, k) = RAISE_MARK
                 /\ \A m \in 1..(k - 1) : CharAt(text, m) # RAISE_MARK
        rest == SubSeq(text, i + 1, Len(text))
        j == CHOOSE k \in 1..Len(rest) :
                 /\ CharAt(rest, k) = RAISE_MARK
                 /\ \A m \in 1..(k - 1) : CharAt(rest, m) # RAISE_MARK
    IN  SubSeq(rest, 1, j - 1)

(***************************************************************************)
(* The tables of the formatter.                                            *)
(***************************************************************************)
MAX_LINE_LENGTH == 50

op_strs ==
    [Add |-> "+", Mult |-> "*", Sub |-> "-", Div |-> "/", FloorDiv |-> "//",
     Mod |-> "%", Pow |-> "**", BitXor |-> "^", BitOr |-> "|", BitAnd |-> "&",
     LShift |-> "<<", RShift |-> ">>", Invert |-> "~", Not |-> "not",
     UAdd |-> "+", USub |-> "-", Eq |-> "==", NotEq |-> "!=", Lt |-> "<",
     LtE |-> "<=", Gt |-> ">", GtE |-> ">=", Is |-> "is", IsNot |-> "is not",
     In |-> "in", NotIn |-> "not in", And |-> "and", Or |-> "or"]

\* the list `precedences` as first written: the tightest class first
precedence_classes ==
    << {"Name", "Constant", "JoinedStr", "List", "ListComp", "Dict", "DictComp",
        "Set", "SetComp", "Tuple", "GeneratorExp"},
       {"Subscript", "Call", "Attribute"},
       {"Await"},
       {"Pow"},
       {"UAdd", "USub", "Invert"},
       {"Mult", "MatMult", "Div", "FloorDiv", "Mod"},
       {"Add", "Sub"},
       {"LShift", "RShift"},
       {"BitAnd"},
       {"BitXor"},
       {"BitOr"},
       {"In", "NotIn", "Is", "IsNot", "Lt", "LtE", "Gt", "GtE", "NotEq", "Eq"},
       {"Not"},
       {"And"},
       {"Or"},
       {"IfExp"},
       {"Lambda"},
       {"NamedExpr"} >>

\* kind in precedences
InPrecedences(kind) ==
    \E j \in 1..Len(precedence_classes) : kind \in precedence_classes[j]

\* precedences[kind], the dict built by enumerate(precedences[::-1])
precedences(kind) ==
    Len(precedence_classes)
        - (CHOOSE j \in 1..Len(precedence_classes) : kind \in precedence_classes[j])

\* no operator taken as right-associative
no_r_assoc == {}

r_assoc == {"Pow"}

semicolon_able ==
    {"AnnAssign", "Assert", "Assign", "AugAssign", "Break", "Continue", "Delete",
     "Expr", "Global", "Import", "ImportFrom", "Nonlocal", "Pass", "Raise",
     "Return"}

nl_before_op == {"Add", "Mult"}

\* the rank of the node's own kind, whatever operator it applies
get_precedence_of_kind(node) ==
    IF InPrecedences(node.t) THEN precedences(node.t) ELSE 0

get_precedence(node) ==
    IF node.t \in {"BoolOp", "BinOp", "UnaryOp"} THEN precedences(node.op.t)
    ELSE IF node.t = "Compare" THEN precedences(node.ops[1].t)
    ELSE IF InPrecedences(node.t) THEN precedences(node.t) ELSE 0

(***************************************************************************)
(* The renderer.  unparse(node, src, r) is unparse(node) of the code when  *)
(* the global `source` holds src and the random draws are those of r.  Its *)
(* parameters nl_able and avoid_backslashes never change the text: the     *)
(* first is only passed on, the second is True at every call.  Trees of    *)
(* the model have no decorators, annotations, defaults or keywords.        *)
(***************************************************************************)
None == [t |-> "None"]

\* chr(conversion), for the conversions !s, !r and !a
Chr(c) == CASE c = 115 -> "s" [] c = 114 -> "r" [] c = 97 -> "a"

\* str(node) of a node object, as an f-string writes it
ObjectRepr(node) == "<ast." \o node.t \o " object at 0x7f2b68964910>"

RECURSIVE unparse(_, _, _)
RECURSIVE parenthesize(_, _, _)
RECURSIVE indent(_, _, _, _)
RECURSIVE PackNodes(_, _, _, _, _, _)
RECURSIVE write_fstring_inner(_, _, _)

\* (parenthesize if cond else unparse)(node)
ParenIf(cond, node, src, r) ==
    IF cond THEN parenthesize(node, src, r) ELSE unparse(node, src, r)

\* [unparse(node) for node in nodes]
UnparseAll(nodes, src, r) == [i \in 1..Len(nodes) |-> unparse(nodes[i], src, r)]

parenthesize(node, src, r) ==
    "(" \o space(r, 0) \o unparse(node, src, r) \o space(r, 1) \o ")"

\* the BoolOp case with < in the place of <=
unparse_BoolOp_strict(node, src, r) ==
    Join(space(r, 0) \o op_strs[node.op.t] \o space(r, 1),
         [i \in 1..Len(node.values) |->
             ParenIf(get_precedence(node.values[i]) < get_precedence(node.op),
                     node.values[i], src, r)])

unparse_BoolOp(node, src, r) ==
    Join(space(r, 0) \o op_strs[node.op.t] \o space(r, 1),
         [i \in 1..Len(node.values) |->
             ParenIf(get_precedence(node.values[i]) <= get_precedence(node.op),
                     node.values[i], src, r)])

unparse_BinOp(node, src, r) ==
    LET left == node.left
        op == node.op
        right == node.right
        op_type == op.t
        par_left == IF op_type \notin r_assoc
                    THEN get_precedence(left) < get_precedence(op)
                    ELSE get_precedence(left) <= get_precedence(op)
        par_right == IF op_type \notin r_assoc
                     THEN get_precedence(right) <= get_precedence(op)
                     ELSE get_precedence(right) < get_precedence(op)
        nl_before == IF op_type \in nl_before_op THEN "\n" ELSE ""
        nl_after == IF op_type \notin nl_before_op THEN "\n" ELSE ""
    IN  "(" \o space(r, 0) \o ParenIf(par_left, left, src, r) \o space(r, 1)
        \o nl_before \o op_strs[op_type] \o space(r, 2) \o nl_after
        \o ParenIf(par_right, right, src, r) \o space(r, 3) \o ")"

unparse_Call(node, src, r) ==
    ParenIf(get_precedence(node.func) < get_precedence(node), node.func, src, r)
    \o space(r, 0) \o "(" \o space(r, 1)
    \o Join(space(r, 2) \o "," \o space(r, 3), UnparseAll(node.args, src, r))
    \o space(r, 4) \o ")"

unparse_Compare(node, src, r) ==
    LET left == node.left
        ops == node.ops
        comparators == node.comparators
    IN  ParenIf(get_precedence(left) <= get_precedence(ops[1]), left, src, r)
        \o Join(space(r, 0),
                [i \in 1..Min(Len(ops), Len(comparators)) |->
                    space(r, 1) \o op_strs[ops[i].t] \o space(r, 2)
                    \o ParenIf(get_precedence(left) <= get_precedence(ops[i]),
                               comparators[i], src, r)])

unparse_Constant(node, src, r) ==
    IF node.is_str
    THEN write_str_avoiding_backslashes(node.value, ALL_QUOTES, r)
    ELSE PySlice(src, node.col_offset, node.end_col_offset)

\* f"!{chr(conversion)}" and f":{_write_fstring_inner(format_spec)}" are
\* evaluated before they are multiplied by the condition
unparse_FormattedValue(node, src, r) ==
    LET expr == unparse(node.value, src, r)
    IN  IF Contains(expr, "\\") THEN Raise("ValueError")
        ELSE "{" \o space(r, 0) \o expr
             \o (IF node.conversion = -1 THEN Raise("ValueError")
                 ELSE "!" \o Chr(node.conversion))
             \o (IF node.format_spec = None
                 THEN Raise("ValueError")
                 ELSE ":" \o write_fstring_inner(node.format_spec, src, r))
             \o space(r, 1) \o "}"

unparse_IfExp(node, src, r) ==
    LET par == get_precedence(node.body) < get_precedence(node)
    IN  ParenIf(par, node.body, src, r) \o space(r, 0)
        \o "if" \o space(r, 1)
        \o ParenIf(par, node.test, src, r) \o space(r, 2)
        \o "else" \o space(r, 3) \o ParenIf(par, node.orelse, src, r)

unparse_Subscript(node, src, r) ==
    ParenIf(get_precedence(node.value) < get_precedence(node), node.value, src, r)
    \o space(r, 0) \o "[" \o space(r, 1) \o unparse(node.slice, src, r)
    \o space(r, 2) \o "]"

unparse_UnaryOp(node, src, r) ==
    LET par_op == get_precedence(node.operand) < get_precedence(node.op)
    IN  op_strs[node.op.t] \o space(r, 0) \o ParenIf(par_op, node.operand, src, r)

\* the case of ast.arguments, for positional parameters only
unparse_arguments(node, src, r) ==
    Join(space(r, 0) \o "," \o space(r, 1), UnparseAll(node.args, src, r))

unparse_Assert(node, src, r) ==
    "assert" \o space(r, 0) \o ObjectRepr(node.test)
    \o (IF node.msg # None THEN "," \o space(r, 1) \o unparse(node.msg, src, r)
        ELSE "")
    \o space(r, 2) \o ";"

unparse_Assign(node, src, r) ==
    Join(space(r, 0) \o "=" \o space(r, 1), UnparseAll(node.targets, src, r))
    \o space(r, 2) \o "=" \o space(r, 3) \o unparse(node.value, src, r)
    \o space(r, 4) \o ";"

unparse_FunctionDef(node, src, r) ==
    Join("\n",
         << "sync" \o space(r, 0) \o "def" \o space(r, 1) \o node.name \o space(r, 2)
            \o "(" \o space(r, 3) \o unparse(node.args, src, r) \o space(r, 4) \o ")"
            \o space(r, 5) \o ":" >>
         \o indent(node.body, indent_width(r, node.lineno, 0), src, r))

unparse_If(node, src, r) ==
    LET s == << "if" \o space(r, 0) \o unparse(node.test, src, r) \o space(r, 1)
                \o ":" >>
             \o indent(node.body, indent_width(r, node.lineno, 0), src, r)
    IN  Join("\n",
             IF node.orelse # <<>>
             THEN s \o << "else" \o space(r, 0) \o ":" >>
                  \o indent(node.orelse, indent_width(r, node.lineno, 1), src, r)
             ELSE s)

unparse_Return(node, src, r) ==
    IF node.value = None THEN "return" \o space(r, 0) \o ";"
    ELSE "return" \o space(r, 0) \o unparse(node.value, src, r) \o space(r, 1) \o ";"

write_fstring_inner(node, src, r) ==
    IF node.t = "JoinedStr"
    THEN Join(space(r, 0),
              [i \in 1..Len(node.values) |-> write_fstring_inner(node.values[i], src, r)])
    ELSE IF node.t = "Constant" /\ node.is_str
    THEN ReplaceChar(ReplaceChar(node.value, "{", "{{"), "}", "}}")
    ELSE IF node.t = "FormattedValue" THEN unparse(node, src, r)
    ELSE Raise("ValueError")

unparse(node, src, r) ==
    CASE node.t = "Assert" -> unparse_Assert(node, src, r)
      [] node.t = "Assign" -> unparse_Assign(node, src, r)
      [] node.t = "Attribute" ->
            unparse(node.value, src, r) \o space(r, 0) \o "." \o space(r, 1) \o node.attr
      [] node.t = "BoolOp" -> unparse_BoolOp(node, src, r)
      [] node.t = "BinOp" -> unparse_BinOp(node, src, r)
      [] node.t = "Call" -> unparse_Call(node, src, r)
      [] node.t = "Compare" -> unparse_Compare(node, src, r)
      [] node.t = "Constant" -> unparse_Constant(node, src, r)
      [] node.t = "Expr" -> unparse(node.value, src, r) \o space(r, 0) \o ";"
      [] node.t = "FormattedValue" -> unparse_FormattedValue(node, src, r)
      [] node.t = "FunctionDef" -> unparse_FunctionDef(node, src, r)
      [] node.t = "If" -> unparse_If(node, src, r)
      [] node.t = "IfExp" -> unparse_IfExp(node, src, r)
      [] node.t = "JoinedStr" ->
            write_str_avoiding_backslashes(write_fstring_inner(node, src, r),
                                           ALL_QUOTES, r)
      [] node.t = "Module" -> Join("\n", indent(node.body, 0, src, r))
      [] node.t = "Name" -> node.id
      [] node.t = "Pass" -> "pass" \o space(r, 0) \o ";"
      [] node.t = "Return" -> unparse_Return(node, src, r)
      [] node.t = "Starred" -> "*" \o space(r, 0) \o parenthesize(node.value, src, r)
      [] node.t = "Subscript" -> unparse_Subscript(node, src, r)
      [] node.t = "UnaryOp" -> unparse_UnaryOp(node, src, r)
      [] node.t = "arg" -> node.arg
      [] node.t = "arguments" -> unparse_arguments(node, src, r)

(***************************************************************************)
(* The packer.  The state of one run of the generator indent: the lines    *)
(* yielded so far (out), curr_chunk and curr_len.                          *)
(***************************************************************************)
PackInit == [out |-> <<>>, curr_chunk |-> <<>>, curr_len |-> 0]

\* yield n * " " + space().join(curr_chunk); curr_len = 0; curr_chunk = []
Flush(st, n, r) ==
    [out |-> Append(st.out, Spaces(n) \o Join(space(r, 0), st.curr_chunk)),
     curr_chunk |-> <<>>,
     curr_len |-> 0]

\* the generator has raised: it yields nothing more
PackRaised(st) == st.out # <<>> /\ HasRaised(st.out[Len(st.out)])

\* one turn of `for line in stmt_lines`; curr_chunk[-1][-1] of an empty
\* line raises IndexError
PackLine(st, line, n, r) ==
    LET st1 == [st EXCEPT !.curr_chunk = Append(@, line), !.curr_len = @ + Len(line)]
    IN  IF PackRaised(st) THEN st
        ELSE IF line = ""
        THEN [st1 EXCEPT !.out = Append(@, Raise("IndexError"))]
        ELSE IF st1.curr_len > MAX_LINE_LENGTH \/ LastChar(line) # ";"
        THEN Flush(st1, n, r)
        ELSE st1

RECURSIVE PackLines(_, _, _, _)
PackLines(st, lines, n, r) ==
    IF lines = <<>> THEN st
    ELSE PackLines(PackLine(st, lines[1], n, r), Tail(lines), n, r)

\* a block statement packed as a simple one
PackStmt_merged(st, stmt, n, src, r) ==
    PackLines(st, splitlines(unparse(stmt, src, r)), n, r)

\* one turn of `for stmt in nodes`
PackStmt(st, stmt, n, src, r) ==
    LET stmt_lines == splitlines(unparse(stmt, src, r))
    IN  IF PackRaised(st) THEN st
        ELSE IF stmt.t \in semicolon_able
        THEN PackLines(st, stmt_lines, n, r)
        ELSE LET f == Flush(st, n, r)
             IN  [f EXCEPT !.out = @ \o [i \in 1..Len(stmt_lines) |->
                                            Spaces(n) \o stmt_lines[i]]]

\* after the loop: if curr_chunk: yield ...
PackEnd(st, n, r) ==
    IF st.curr_chunk # <<>> /\ ~PackRaised(st) THEN Flush(st, n, r) ELSE st

PackNodes(st, nodes, i, n, src, r) ==
    IF i > Len(nodes) THEN PackEnd(st, n, r)
    ELSE PackNodes(PackStmt(st, nodes[i], n, src, r), nodes, i + 1, n, src, r)

\* list(indent(nodes, n))
indent(nodes, n, src, r) == PackNodes(PackInit, nodes, 1, n, src, r).out

\* len(src) - len(src.lstrip())
num_spaces(src) == Len(src) - Len(lstrip(src))

\* max(...) of an empty sequence raises ValueError
invert_indents(src) ==
    LET lines == splitlines(src)
        max_spaces == CHOOSE m \in {num_spaces(lines[i]) : i \in 1..Len(lines)} :
                          \A i \in 1..Len(lines) : num_spaces(lines[i]) <= m
    IN  IF lines = <<>> THEN Raise("ValueError")
        ELSE Join("\n", [i \in 1..Len(lines) |->
                            Spaces(max_spaces - num_spaces(lines[i]))
                            \o lstrip(lines[i])])

(***************************************************************************)
(* How Python reads an expression: the tokens of a text and the tree that  *)
(* the grammar gives them (precedence climbing, loosest rule first):       *)
(*     expression:  disjunction ['if' disjunction 'else' expression]       *)
(*     disjunction: conjunction ('or' conjunction)*                        *)
(*     conjunction: inversion ('and' inversion)*                           *)
(*     inversion:   'not' inversion | comparison                           *)
(*     comparison:  sum (compare_op sum)*                                   *)
(*     sum:         term (('+' | '-') term)*                                *)
(*     term:        factor (('*' | '/' | '//' | '%') factor)*               *)
(*     factor:      ('+' | '-' | '~') factor | power                        *)
(*     power:       primary ['**' factor]                                   *)
(*     primary:     atom trailer*                                           *)
(*     trailer:     '(' arguments ')' | '.' NAME | '[' expression ']'       *)
(*     atom:        NAME | NUMBER | STRING | '(' expression ')'             *)
(* A line break inside brackets is white space; outside it ends the        *)
(* logical line.  The claims use these rules to read rendered text back.   *)
(***************************************************************************)
Letters ==
    {"a", "b", "c", "d", "e", "f", "g", "h", "i", "j", "k", "l", "m", "n", "o",
     "p", "q", "r", "s", "t", "u", "v", "w", "x", "y", "z", "_"}

Keywords ==
    {"if", "else", "and", "or", "not", "def", "pass", "return", "assert"}

TwoCharOps == {"**", "==", "!=", "<=", ">=", "//", "<<", ">>"}

\* the end of the word that starts at position i
RECURSIVE WordEnd(_, _)
WordEnd(s, i) ==
    IF i < Len(s) /\ CharAt(s, i + 1) \in Letters THEN WordEnd(s, i + 1) ELSE i

Digits == {"0", "1", "2", "3", "4", "5", "6", "7", "8", "9"}

\* the end of the number that starts at position i
RECURSIVE NumberEnd(_, _)
NumberEnd(s, i) ==
    IF i < Len(s) /\ CharAt(s, i + 1) \in (Digits \cup Letters)
    THEN NumberEnd(s, i + 1) ELSE i

\* the position of the quote that closes a string whose body starts at i and
\* whose delimiter q is a quote character repeated n times; 0 if none does
RECURSIVE StringEnd(_, _, _, _)
StringEnd(s, i, q, n) ==
    IF i + n - 1 > Len(s) THEN 0
    ELSE IF CharAt(s, i) = "\\" THEN StringEnd(s, i + 2, q, n)
    ELSE IF SubSeq(s, i, i + n - 1) = q THEN i + n - 1
    ELSE IF CharAt(s, i) = "\n" /\ n = 1 THEN 0
    ELSE StringEnd(s, i + 1, q, n)

\* the number of spaces from position i on
RECURSIVE SpacesAt(_, _)
SpacesAt(s, i) ==
    IF i <= Len(s) /\ CharAt(s, i) = " " THEN 1 + SpacesAt(s, i + 1) ELSE 0

\* the position after the line that holds position i
RECURSIVE NextLine(_, _)
NextLine(s, i) ==
    IF i > Len(s) THEN i
    ELSE IF CharAt(s, i) = "\n" THEN i + 1
    ELSE NextLine(s, i + 1)

\* an f-string starts at position i: the prefix f and a quote
IsFStringStart(s, i) ==
    /\ CharAt(s, i) = "f"
    /\ i < Len(s)
    /\ CharAt(s, i + 1) \in {"'", "\""}

RECURSIVE TokensFrom(_, _, _)
RECURSIVE LineStart(_, _)

\* A logical line starts with a token that holds a line break and the line's
\* leading spaces; a blank line and a comment line give no token.
LineStart(s, i) ==
    LET k == SpacesAt(s, i)
        j == i + k
    IN  IF j > Len(s) THEN <<>>
        ELSE IF CharAt(s, j) \in {"\n", "#"} THEN LineStart(s, NextLine(s, j))
        ELSE <<"\n" \o Spaces(k)>> \o TokensFrom(s, j, 0)

TokensFrom(s, i, depth) ==
    IF i > Len(s) THEN <<>>
    ELSE LET c == CharAt(s, i)
         IN  IF c = " " THEN TokensFrom(s, i + 1, depth)
             ELSE IF c = "\n"
             THEN IF depth > 0 THEN TokensFrom(s, i + 1, depth)
                  ELSE LineStart(s, i + 1)
             ELSE IF c \in Letters /\ ~IsFStringStart(s, i)
             THEN LET j == WordEnd(s, i)
                  IN  <<SubSeq(s, i, j)>> \o TokensFrom(s, j + 1, depth)
             ELSE IF IsFStringStart(s, i)
             THEN LET j == StringEnd(s, i + 2, CharAt(s, i + 1), 1)
                  IN  IF j = 0 THEN <<"<error>">>
                      ELSE <<SubSeq(s, i + 1, j)>> \o TokensFrom(s, j + 1, depth)
             ELSE IF c \in Digits
             THEN LET j == NumberEnd(s, i)
                  IN  <<SubSeq(s, i, j)>> \o TokensFrom(s, j + 1, depth)
             ELSE IF c \in {"'", "\""}
             THEN LET n == IF SubSeq(s, i, Min(i + 2, Len(s))) = c \o c \o c
                           THEN 3 ELSE 1
                      j == StringEnd(s, i + n, SubSeq(s, i, i + n - 1), n)
                  IN  IF j = 0 THEN <<"<error>">>
                      ELSE <<SubSeq(s, i, j)>> \o TokensFrom(s, j + 1, depth)
             ELSE IF i < Len(s) /\ SubSeq(s, i, i + 1) \in TwoCharOps
             THEN <<SubSeq(s, i, i + 1)>> \o TokensFrom(s, i + 2, depth)
             ELSE <<c>> \o TokensFrom(s, i + 1,
                                      IF c \in {"(", "["} THEN depth + 1
                                      ELSE IF c \in {")", "]"} THEN Max(depth - 1, 0)
                                      ELSE depth)

Tokens(s) == TokensFrom(s, 1, 0)

TokenAt(toks, i) == IF i <= Len(toks) THEN toks[i] ELSE "<end>"

IsName(tok) == CharAt(tok, 1) \in Letters /\ tok \notin Keywords

\* a number or a string literal
IsLiteral(tok) == CharAt(tok, 1) \in (Digits \cup {"'", "\""})

Fail == [ok |-> FALSE, node |-> None, pos |-> 0]
Got(node, pos) == [ok |-> TRUE, node |-> node, pos |-> pos]

CompareOps == [x \in {"<", ">", "==", "!=", "<=", ">="} |->
                  CASE x = "<" -> "Lt" [] x = ">" -> "Gt" [] x = "==" -> "Eq"
                    [] x = "!=" -> "NotEq" [] x = "<=" -> "LtE" [] x = ">=" -> "GtE"]
SumOps == [x \in {"+", "-"} |-> IF x = "+" THEN "Add" ELSE "Sub"]
TermOps == [x \in {"*", "/", "//", "%"} |->
               CASE x = "*" -> "Mult" [] x = "/" -> "Div" [] x = "//" -> "FloorDiv"
                 [] x = "%" -> "Mod"]
FactorOps == [x \in {"+", "-", "~"} |->
                 CASE x = "+" -> "UAdd" [] x = "-" -> "USub" [] x = "~" -> "Invert"]

RECURSIVE ReadExpression(_, _)
RECURSIVE ReadDisjunction(_, _)
RECURSIVE ReadConjunction(_, _)
RECURSIVE ReadInversion(_, _)
RECURSIVE ReadComparison(_, _)
RECURSIVE ReadSum(_, _)
RECURSIVE ReadTerm(_, _)
RECURSIVE ReadFactor(_, _)
RECURSIVE ReadPower(_, _)
RECURSIVE ReadAtom(_, _)
RECURSIVE ReadArgs(_, _, _)
RECURSIVE ReadTrailers(_, _, _)
RECURSIVE ReadPrimary(_, _)
RECURSIVE ReadChain(_, _, _, _)
RECURSIVE ReadCompareRest(_, _, _, _)
RECURSIVE ReadLeftAssoc(_, _, _, _)

\* atom: NAME | NUMBER | STRING | '(' expression ')'
ReadAtom(toks, i) ==
    LET tok == TokenAt(toks, i)
    IN  IF tok = "("
        THEN LET e == ReadExpression(toks, i + 1)
             IN  IF e.ok /\ TokenAt(toks, e.pos) = ")" THEN Got(e.node, e.pos + 1)
                 ELSE Fail
        ELSE IF IsName(tok) THEN Got([t |-> "Name", id |-> tok], i + 1)
        ELSE IF IsLiteral(tok) THEN Got([t |-> "Constant", text |-> tok], i + 1)
        ELSE Fail

\* the arguments of a call, after its '(': [expression (',' expression)*] ')'
ReadArgs(toks, i, args) ==
    IF TokenAt(toks, i) = ")" /\ args = <<>> THEN Got(args, i + 1)
    ELSE LET e == ReadExpression(toks, i)
         IN  IF ~e.ok THEN Fail
             ELSE IF TokenAt(toks, e.pos) = ","
             THEN ReadArgs(toks, e.pos + 1, Append(args, e.node))
             ELSE IF TokenAt(toks, e.pos) = ")"
             THEN Got(Append(args, e.node), e.pos + 1)
             ELSE Fail

\* the trailers of a primary: '(' arguments ')' | '.' NAME | '[' expression ']'
ReadTrailers(toks, node, i) ==
    LET tok == TokenAt(toks, i)
    IN  IF tok = "("
        THEN LET a == ReadArgs(toks, i + 1, <<>>)
             IN  IF a.ok
                 THEN ReadTrailers(toks, [t |-> "Call", func |-> node, args |-> a.node],
                                   a.pos)
                 ELSE Fail
        ELSE IF tok = "." /\ IsName(TokenAt(toks, i + 1))
        THEN ReadTrailers(toks, [t |-> "Attribute", value |-> node,
                                 attr |-> TokenAt(toks, i + 1)], i + 2)
        ELSE IF tok = "["
        THEN LET e == ReadExpression(toks, i + 1)
             IN  IF e.ok /\ TokenAt(toks, e.pos) = "]"
                 THEN ReadTrailers(toks, [t |-> "Subscript", value |-> node,
                                          slice |-> e.node], e.pos + 1)
                 ELSE Fail
        ELSE Got(node, i)

ReadPrimary(toks, i) ==
    LET a == ReadAtom(toks, i)
    IN  IF a.ok THEN ReadTrailers(toks, a.node, a.pos) ELSE Fail

ReadPower(toks, i) ==
    LET a == ReadPrimary(toks, i)
    IN  IF a.ok /\ TokenAt(toks, a.pos) = "**"
        THEN LET f == ReadFactor(toks, a.pos + 1)
             IN  IF f.ok
                 THEN Got([t |-> "BinOp", left |-> a.node, op |-> [t |-> "Pow"],
                           right |-> f.node], f.pos)
                 ELSE Fail
        ELSE a

ReadFactor(toks, i) ==
    LET tok == TokenAt(toks, i)
    IN  IF tok \in DOMAIN FactorOps
        THEN LET f == ReadFactor(toks, i + 1)
             IN  IF f.ok
                 THEN Got([t |-> "UnaryOp", op |-> [t |-> FactorOps[tok]],
                           operand |-> f.node], f.pos)
                 ELSE Fail
        ELSE ReadPower(toks, i)

\* left (op operand)* for a left-associative level; level 1 is sum, 2 is term
ReadLeftAssoc(toks, left, i, level) ==
    LET ops == IF level = 1 THEN SumOps ELSE TermOps
        tok == TokenAt(toks, i)
    IN  IF tok \in DOMAIN ops
        THEN LET rhs == IF level = 1 THEN ReadTerm(toks, i + 1)
                        ELSE ReadFactor(toks, i + 1)
             IN  IF rhs.ok
                 THEN ReadLeftAssoc(toks,
                                    [t |-> "BinOp", left |-> left,
                                     op |-> [t |-> ops[tok]], right |-> rhs.node],
                                    rhs.pos, level)
                 ELSE Fail
        ELSE Got(left, i)

ReadTerm(toks, i) ==
    LET f == ReadFactor(toks, i)
    IN  IF f.ok THEN ReadLeftAssoc(toks, f.node, f.pos, 2) ELSE Fail

ReadSum(toks, i) ==
    LET f == ReadTerm(toks, i)
    IN  IF f.ok THEN ReadLeftAssoc(toks, f.node, f.pos, 1) ELSE Fail

ReadCompareRest(toks, i, ops, comparators) ==
    LET tok == TokenAt(toks, i)
    IN  IF tok \in DOMAIN CompareOps
        THEN LET rhs == ReadSum(toks, i + 1)
             IN  IF rhs.ok
                 THEN ReadCompareRest(toks, rhs.pos,
                                      Append(ops, [t |-> CompareOps[tok]]),
                                      Append(comparators, rhs.node))
                 ELSE Fail
        ELSE Got([ops |-> ops, comparators |-> comparators], i)

ReadComparison(toks, i) ==
    LET left == ReadSum(toks, i)
        rest == ReadCompareRest(toks, left.pos, <<>>, <<>>)
    IN  IF ~left.ok THEN Fail
        ELSE IF ~rest.ok THEN Fail
        ELSE IF rest.node.ops = <<>> THEN left
        ELSE Got([t |-> "Compare", left |-> left.node, ops |-> rest.node.ops,
                  comparators |-> rest.node.comparators], rest.pos)

ReadInversion(toks, i) ==
    IF TokenAt(toks, i) = "not"
    THEN LET f == ReadInversion(toks, i + 1)
         IN  IF f.ok
             THEN Got([t |-> "UnaryOp", op |-> [t |-> "Not"], operand |-> f.node],
                      f.pos)
             ELSE Fail
    ELSE ReadComparison(toks, i)

\* the operands of an `and` chain (word "and") or an `or` chain (word "or")
ReadChain(toks, i, word, values) ==
    LET v == IF word = "and" THEN ReadInversion(toks, i) ELSE ReadConjunction(toks, i)
    IN  IF ~v.ok THEN Fail
        ELSE IF TokenAt(toks, v.pos) = word
        THEN ReadChain(toks, v.pos + 1, word, Append(values, v.node))
        ELSE Got(Append(values, v.node), v.pos)

ReadConjunction(toks, i) ==
    LET c == ReadChain(toks, i, "and", <<>>)
    IN  IF ~c.ok THEN Fail
        ELSE IF Len(c.node) = 1 THEN Got(c.node[1], c.pos)
        ELSE Got([t |-> "BoolOp", op |-> [t |-> "And"], values |-> c.node], c.pos)

ReadDisjunction(toks, i) ==
    LET c == ReadChain(toks, i, "or", <<>>)
    IN  IF ~c.ok THEN Fail
        ELSE IF Len(c.node) = 1 THEN Got(c.node[1], c.pos)
        ELSE Got([t |-> "BoolOp", op |-> [t |-> "Or"], values |-> c.node], c.pos)

ReadExpression(toks, i) ==
    LET body == ReadDisjunction(toks, i)
    IN  IF ~body.ok THEN Fail
        ELSE IF TokenAt(toks, body.pos) = "if"
        THEN LET test == ReadDisjunction(toks, body.pos + 1)
                 orelse == ReadExpression(toks, test.pos + 1)
             IN  IF test.ok /\ TokenAt(toks, test.pos) = "else" /\ orelse.ok
                 THEN Got([t |-> "IfExp", test |-> test.node, body |-> body.node,
                           orelse |-> orelse.node], orelse.pos)
                 ELSE Fail
        ELSE body

SyntaxError == [t |-> "SyntaxError"]

\* the tree of an expression text, or SyntaxError
read_expression(text) ==
    LET toks == Tokens(text)
        e == ReadExpression(toks, 1)
    IN  IF e.ok /\ e.pos = Len(toks) + 1 THEN e.node ELSE SyntaxError

(***************************************************************************)
(* How Python reads a program: its logical lines, the block that the       *)
(* indentation gives each line, and the statements of each line.           *)
(*     statements:  simple (';' simple)* [';']                             *)
(*     simple:      'pass' | 'return' [expression]                         *)
(*                  | 'assert' expression [',' expression]                 *)
(*                  | expression ('=' expression)*                         *)
(*     header:      'if' expression ':' | 'else' ':'                       *)
(*                  | 'def' NAME '(' [NAME (',' NAME)*] ')' ':'            *)
(* A header stands alone on its line and its block follows on the lines    *)
(* after it.                                                               *)
(***************************************************************************)
ProgramTokens(text) == LineStart(text, 1)

IsLineStart(tok) == CharAt(tok, 1) = "\n"

\* the position of the first line start at or after i, or Len(toks) + 1
RECURSIVE LineEnd(_, _)
LineEnd(toks, i) ==
    IF i > Len(toks) \/ IsLineStart(toks[i]) THEN i ELSE LineEnd(toks, i + 1)

\* the statements of a line of simple statements: its ';' outside brackets,
\* and one more when the line does not end with ';'
RECURSIVE CountStatements(_, _, _)
CountStatements(line, i, depth) ==
    IF i > Len(line) THEN IF line[Len(line)] = ";" THEN 0 ELSE 1
    ELSE LET tok == line[i]
         IN  IF tok = ";" /\ depth = 0 THEN 1 + CountStatements(line, i + 1, depth)
             ELSE CountStatements(line, i + 1,
                                  IF tok \in {"(", "["} THEN depth + 1
                                  ELSE IF tok \in {")", "]"} THEN depth - 1
                                  ELSE depth)

\* the indentation stack without the levels deeper than c
RECURSIVE PopTo(_, _)
PopTo(stack, c) ==
    IF stack[Len(stack)] > c THEN PopTo(SubSeq(stack, 1, Len(stack) - 1), c)
    ELSE stack

\* the last entry of the shape that is no deeper than d
RECURSIVE LastAbove(_, _)
LastAbove(shape, d) ==
    IF shape = <<>> THEN <<"none", 0>>
    ELSE IF shape[Len(shape)][2] <= d THEN shape[Len(shape)]
    ELSE LastAbove(SubSeq(shape, 1, Len(shape) - 1), d)

NoNesting == [ok |-> FALSE, shape |-> <<>>]

\* The shape of a program: for each statement in order, its kind ("block"
\* for the header of a block, "else", "stmt") and the depth of its block.
RECURSIVE ReadNestingFrom(_, _, _, _, _)
ReadNestingFrom(toks, i, stack, after_header, shape) ==
    IF i > Len(toks)
    THEN IF after_header THEN NoNesting ELSE [ok |-> TRUE, shape |-> shape]
    ELSE LET c == Len(toks[i]) - 1
             j == LineEnd(toks, i + 1)
             line == SubSeq(toks, i + 1, j - 1)
             top == stack[Len(stack)]
             stack1 == IF c > top THEN Append(stack, c) ELSE PopTo(stack, c)
             d == Len(stack1) - 1
             header == line[Len(line)] = ":"
             kind == IF line[1] = "else" THEN "else" ELSE "block"
         IN  IF (c > top) # after_header THEN NoNesting
             ELSE IF stack1[Len(stack1)] # c THEN NoNesting
             ELSE IF header /\ kind = "else" /\ LastAbove(shape, d) # <<"block", d>>
             THEN NoNesting
             ELSE ReadNestingFrom(
                      toks, j, stack1, header,
                      shape \o (IF header THEN << <<kind, d>> >>
                                ELSE [k \in 1..CountStatements(line, 1, 0) |->
                                         <<"stmt", d>>]))

read_nesting(text) == ReadNestingFrom(ProgramTokens(text), 1, <<0>>, FALSE, <<>>)

\* the position after the simple statement at i, or 0
RECURSIVE ReadTargets(_, _)
ReadTargets(toks, i) ==
    LET e == ReadExpression(toks, i)
    IN  IF ~e.ok THEN 0
        ELSE IF TokenAt(toks, e.pos) = "=" THEN ReadTargets(toks, e.pos + 1)
        ELSE e.pos

ReadSimple(toks, i) ==
    LET tok == TokenAt(toks, i)
    IN  IF tok = "pass" THEN i + 1
        ELSE IF tok = "return"
        THEN IF TokenAt(toks, i + 1) = ";" \/ i + 1 = LineEnd(toks, i + 1) THEN i + 1
             ELSE LET e == ReadExpression(toks, i + 1) IN IF e.ok THEN e.pos ELSE 0
        ELSE IF tok = "assert"
        THEN LET e == ReadExpression(toks, i + 1)
                 m == ReadExpression(toks, e.pos + 1)
             IN  IF ~e.ok THEN 0
                 ELSE IF TokenAt(toks, e.pos) # "," THEN e.pos
                 ELSE IF m.ok THEN m.pos ELSE 0
        ELSE ReadTargets(toks, i)

\* the position after the statements of the line at i, or 0
RECURSIVE ReadStatements(_, _)
ReadStatements(toks, i) ==
    LET j == ReadSimple(toks, i)
        end == LineEnd(toks, i)
    IN  IF j = 0 THEN 0
        ELSE IF j = end THEN j
        ELSE IF TokenAt(toks, j) # ";" THEN 0
        ELSE IF j + 1 = end THEN end
        ELSE ReadStatements(toks, j + 1)

\* the position after the parameters of a def and its ')', or 0
RECURSIVE ReadParams(_, _, _)
ReadParams(toks, i, first) ==
    IF first /\ TokenAt(toks, i) = ")" THEN i + 1
    ELSE IF ~IsName(TokenAt(toks, i)) THEN 0
    ELSE IF TokenAt(toks, i + 1) = "," THEN ReadParams(toks, i + 2, FALSE)
    ELSE IF TokenAt(toks, i + 1) = ")" THEN i + 2
    ELSE 0

\* the position after the header at i and its ':', or 0
ReadHeader(toks, i) ==
    LET tok == TokenAt(toks, i)
    IN  IF tok = "if"
        THEN LET e == ReadExpression(toks, i + 1)
             IN  IF e.ok /\ TokenAt(toks, e.pos) = ":" THEN e.pos + 1 ELSE 0
        ELSE IF tok = "else"
        THEN IF TokenAt(toks, i + 1) = ":" THEN i + 2 ELSE 0
        ELSE IF tok = "def" /\ IsName(TokenAt(toks, i + 1))
                            /\ TokenAt(toks, i + 2) = "("
        THEN LET j == ReadParams(toks, i + 3, TRUE)
             IN  IF j # 0 /\ TokenAt(toks, j) = ":" THEN j + 1 ELSE 0
        ELSE 0

\* every logical line from i on is a header or a line of simple statements
RECURSIVE GrammaticalFrom(_, _)
GrammaticalFrom(toks, i) ==
    IF i > Len(toks) THEN TRUE
    ELSE LET end == LineEnd(toks, i + 1)
             j == IF TokenAt(toks, i + 1) \in {"if", "else", "def"}
                  THEN ReadHeader(toks, i + 1)
                  ELSE ReadStatements(toks, i + 1)
         IN  j = end /\ GrammaticalFrom(toks, end)

\* ast.parse(text) does not raise
parses(text) ==
    /\ read_nesting(text).ok
    /\ GrammaticalFrom(ProgramTokens(text), 1)

\* the shape of a program, from its tree
RECURSIVE TreeShape(_, _)
RECURSIVE BodyShape(_, _)
BodyShape(nodes, d) ==
    IF nodes = <<>> THEN <<>>
    ELSE TreeShape(nodes[1], d) \o BodyShape(Tail(nodes), d)

TreeShape(node, d) ==
    IF node.t = "Module" THEN BodyShape(node.body, 0)
    ELSE IF node.t = "If"
    THEN << <<"block", d>> >> \o BodyShape(node.body, d + 1)
         \o (IF node.orelse # <<>>
             THEN << <<"else", d>> >> \o BodyShape(node.orelse, d + 1)
             ELSE <<>>)
    ELSE IF node.t = "FunctionDef"
    THEN << <<"block", d>> >> \o BodyShape(node.body, d + 1)
    ELSE << <<"stmt", d>> >>

(***************************************************************************)
(* ast.parse.  The trees of the programs below are the ones ast.parse      *)
(* returns for these texts (node class in t, the fields unparse reads);    *)
(* for the texts of InvalidTexts it raises SyntaxError.                    *)
(***************************************************************************)
Corpus ==
    << [src |-> "'@'",
        ast |-> [t |-> "Module", body |-> <<[t |-> "Expr", lineno |-> 1,
                value |-> [t |-> "Constant", is_str |-> TRUE, value |-> "@",
                lineno |-> 1, col_offset |-> 0, end_col_offset |-> 3]]>>]],
       [src |-> "",
        ast |-> [t |-> "Module", body |-> <<>>]],
       [src |-> "# c",
        ast |-> [t |-> "Module", body |-> <<>>]],
       [src |-> "x=1",
        ast |-> [t |-> "Module", body |-> <<[t |-> "Assign", lineno |-> 1,
                targets |-> <<[t |-> "Name", id |-> "x"]>>,
                value |-> [t |-> "Constant", is_str |-> FALSE, value |-> "1",
                lineno |-> 1, col_offset |-> 2, end_col_offset |-> 3]]>>]],
       [src |-> "y=2",
        ast |-> [t |-> "Module", body |-> <<[t |-> "Assign", lineno |-> 1,
                targets |-> <<[t |-> "Name", id |-> "y"]>>,
                value |-> [t |-> "Constant", is_str |-> FALSE, value |-> "2",
                lineno |-> 1, col_offset |-> 2, end_col_offset |-> 3]]>>]],
       [src |-> "print('a'+'b')",
        ast |-> [t |-> "Module", body |-> <<[t |-> "Expr", lineno |-> 1,
                value |-> [t |-> "Call", func |-> [t |-> "Name", id |-> "print"],
                args |-> <<[t |-> "BinOp", left |-> [t |-> "Constant",
                is_str |-> TRUE, value |-> "a", lineno |-> 1, col_offset |-> 6,
                end_col_offset |-> 9], op |-> [t |-> "Add"],
                right |-> [t |-> "Constant", is_str |-> TRUE, value |-> "b",
                lineno |-> 1, col_offset |-> 10, end_col_offset |-> 13]]>>]]>>]],
       [src |-> "if a:\n    pass",
        ast |-> [t |-> "Module", body |-> <<[t |-> "If", lineno |-> 1,
                test |-> [t |-> "Name", id |-> "a"], body |-> <<[t |-> "Pass",
                lineno |-> 2]>>, orelse |-> <<>>]>>]],
       [src |-> "if a:\n  x\nelse:\n  y\nz",
        ast |-> [t |-> "Module", body |-> <<[t |-> "If", lineno |-> 1,
                test |-> [t |-> "Name", id |-> "a"], body |-> <<[t |-> "Expr",
                lineno |-> 2, value |-> [t |-> "Name", id |-> "x"]]>>,
                orelse |-> <<[t |-> "Expr", lineno |-> 4, value |-> [t |-> "Name",
                id |-> "y"]]>>], [t |-> "Expr", lineno |-> 5,
                value |-> [t |-> "Name", id |-> "z"]]>>]],
       [src |-> "if a:\n  if b:\n    x\n  y\nz",
        ast |-> [t |-> "Module", body |-> <<[t |-> "If", lineno |-> 1,
                test |-> [t |-> "Name", id |-> "a"], body |-> <<[t |-> "If",
                lineno |-> 2, test |-> [t |-> "Name", id |-> "b"],
                body |-> <<[t |-> "Expr", lineno |-> 3, value |-> [t |-> "Name",
                id |-> "x"]]>>, orelse |-> <<>>], [t |-> "Expr", lineno |-> 4,
                value |-> [t |-> "Name", id |-> "y"]]>>, orelse |-> <<>>],
                [t |-> "Expr", lineno |-> 5, value |-> [t |-> "Name",
                id |-> "z"]]>>]],
       [src |-> "def f():\n    return 1",
        ast |-> [t |-> "Module", body |-> <<[t |-> "FunctionDef", lineno |-> 1,
                name |-> "f", args |-> [t |-> "arguments", args |-> <<>>],
                body |-> <<[t |-> "Return", lineno |-> 2,
                value |-> [t |-> "Constant", is_str |-> FALSE, value |-> "1",
                lineno |-> 2, col_offset |-> 11, end_col_offset |-> 12]]>>]>>]],
       [src |-> "assert x",
        ast |-> [t |-> "Module", body |-> <<[t |-> "Assert", lineno |-> 1,
                test |-> [t |-> "Name", id |-> "x"], msg |-> None]>>]],
       [src |-> "x=1\ny=22\nprint(x)",
        ast |-> [t |-> "Module", body |-> <<[t |-> "Assign", lineno |-> 1,
                targets |-> <<[t |-> "Name", id |-> "x"]>>,
                value |-> [t |-> "Constant", is_str |-> FALSE, value |-> "1",
                lineno |-> 1, col_offset |-> 2, end_col_offset |-> 3]],
                [t |-> "Assign", lineno |-> 2, targets |-> <<[t |-> "Name",
                id |-> "y"]>>, value |-> [t |-> "Constant", is_str |-> FALSE,
                value |-> "22", lineno |-> 2, col_offset |-> 2,
                end_col_offset |-> 4]], [t |-> "Expr", lineno |-> 3,
                value |-> [t |-> "Call", func |-> [t |-> "Name", id |-> "print"],
                args |-> <<[t |-> "Name", id |-> "x"]>>]]>>]],
       [src |-> "f'{x}'",
        ast |-> [t |-> "Module", body |-> <<[t |-> "Expr", lineno |-> 1,
                value |-> [t |-> "JoinedStr", values |-> <<[t |-> "FormattedValue",
                value |-> [t |-> "Name", id |-> "x"], conversion |-> -1,
                format_spec |-> None]>>]]>>]],
       [src |-> "x = a + b",
        ast |-> [t |-> "Module", body |-> <<[t |-> "Assign", lineno |-> 1,
                targets |-> <<[t |-> "Name", id |-> "x"]>>,
                value |-> [t |-> "BinOp", left |-> [t |-> "Name", id |-> "a"],
                op |-> [t |-> "Add"], right |-> [t |-> "Name", id |-> "b"]]]>>]],
       [src |-> "a < (b < c)",
        ast |-> [t |-> "Module", body |-> <<[t |-> "Expr", lineno |-> 1,
                value |-> [t |-> "Compare", left |-> [t |-> "Name", id |-> "a"],
                ops |-> <<[t |-> "Lt"]>>, comparators |-> <<[t |-> "Compare",
                left |-> [t |-> "Name", id |-> "b"], ops |-> <<[t |-> "Lt"]>>,
                comparators |-> <<[t |-> "Name", id |-> "c"]>>]>>]]>>]] >>

\* texts that ast.parse rejects: an unclosed bracket, a header without colon
InvalidTexts == {"print(", "x = (1", "if a\n  x"}

ValidTexts == {Corpus[k].src : k \in 1..Len(Corpus)}

Texts == ValidTexts \cup InvalidTexts

\* ast.parse(src)
ast_parse(src) ==
    IF \E k \in 1..Len(Corpus) : Corpus[k].src = src
    THEN Corpus[CHOOSE k \in 1..Len(Corpus) : Corpus[k].src = src].ast
    ELSE SyntaxError

(***************************************************************************)
(* blurplify.  Its last statement renders the tree; the Constant case of   *)
(* unparse reads the module's global `source` when it runs, which is the   *)
(* argument source_now here.  An exception of the rendering ends the call. *)
(***************************************************************************)
CODING_LINE == "# coding=UTF-8-NOBOM\n"

blurplify_return(src_ast, source_now, r) ==
    LET text == CODING_LINE \o invert_indents(unparse(src_ast, source_now, r))
    IN  IF HasRaised(text)
        THEN [kind |-> RaisedIn(text), text |-> ""]
        ELSE [kind |-> "return", text |-> text]

\* what a call of blurplify(src) that runs alone can end with
blurplify(src) ==
    IF ast_parse(src) = SyntaxError
    THEN {[kind |-> "SyntaxError", text |-> ""]}
    ELSE {blurplify_return(ast_parse(src), src, r) : r \in Draws}

(***************************************************************************)
(* One call of blurplify, statement by statement.  thr[i] is the call that *)
(* thread i runs: pc names the statement it executes next ("assign" is     *)
(* `source = src`, "parse" is `src_ast = ast.parse(src)`, "render" is the  *)
(* return statement), source_at_call is the value of the global when the   *)
(* call began.  The global is unbound until the first call assigns it.     *)
(***************************************************************************)
UNBOUND == [bound |-> FALSE, value |-> ""]

\* the global, bound to a text
Bound(text) == [bound |-> TRUE, value |-> text]

NoResult == [kind |-> "none", text |-> ""]

NoCall ==
    [pc |-> "idle", src |-> "", src_ast |-> None, result |-> NoResult,
     source_at_call |-> UNBOUND]

\* blurplify(src) is entered
Enter(i, src) ==
    thr' = [thr EXCEPT ![i] = [NoCall EXCEPT !.pc = "assign", !.src = src,
                                             !.source_at_call = source]]

\* global source; source = src
SetSource(i) ==
    /\ thr[i].pc = "assign"
    /\ source' = Bound(thr[i].src)
    /\ thr' = [thr EXCEPT ![i].pc = "parse"]
    /\ UNCHANGED <<lit, ex, pk, cmd, lock, jam, inv>>

\* src_ast = ast.parse(src)
ParseSource(i) ==
    /\ thr[i].pc = "parse"
    /\ LET tree == ast_parse(thr[i].src)
       IN  thr' = [thr EXCEPT ![i] =
                      IF tree = SyntaxError
                      THEN [@ EXCEPT !.pc = "done",
                                     !.result = [kind |-> "SyntaxError", text |-> ""]]
                      ELSE [@ EXCEPT !.pc = "render", !.src_ast = tree]]
    /\ UNCHANGED <<source, lit, ex, pk, cmd, lock, jam, inv>>

\* return "# coding=UTF-8-NOBOM\n" + invert_indents(unparse(src_ast))
Render(i) ==
    /\ thr[i].pc = "render"
    /\ \E r \in Draws :
          thr' = [thr EXCEPT ![i].pc = "done",
                             ![i].result = blurplify_return(thr[i].src_ast, source.value, r)]
    /\ UNCHANGED <<source, lit, ex, pk, cmd, lock, jam, inv>>

(***************************************************************************)
(* Calls made directly, without the cog: thread i calls blurplify on a     *)
(* text and takes the result, again and again.                             *)
(***************************************************************************)
Call(i, src) ==
    /\ thr[i].pc = "idle"
    /\ Enter(i, src)
    /\ UNCHANGED <<source, lit, ex, pk, cmd, lock, jam, inv>>

\* the caller has the result (or the exception) and may call again
Return(i) ==
    /\ thr[i].pc = "done"
    /\ thr' = [thr EXCEPT ![i] = NoCall]
    /\ UNCHANGED <<source, lit, ex, pk, cmd, lock, jam, inv>>

UNUSED == [t |-> "unused"]

\* one thread, every text of the model
FormatInit ==
    /\ source = UNBOUND
    /\ thr = [i \in {1} |-> NoCall]
    /\ lit = UNUSED /\ ex = UNUSED /\ pk = UNUSED /\ cmd = UNUSED /\ lock = UNUSED
    /\ jam = UNUSED /\ inv = UNUSED

FormatNext ==
    \E i \in DOMAIN thr :
        \/ \E src \in Texts : Call(i, src)
        \/ SetSource(i)
        \/ ParseSource(i)
        \/ Render(i)
        \/ Return(i)

SpecFormat == FormatInit /\ [][FormatNext]_vars

\* the calls that have ended
Ended == {i \in DOMAIN thr : thr[i].pc = "done"}

\* the calls that have returned a text
Returned == {i \in Ended : thr[i].result.kind = "return"}

(***************************************************************************)
(* C1: a call of blurplify on a text that ast.parse accepts, the empty     *)
(* and the comment-only text included, ends by returning a text, never by  *)
(* raising.                                                                *)
(***************************************************************************)
C1_NeverRaisesOnAccepted ==
    \A i \in Ended : thr[i].src \in ValidTexts => thr[i].result.kind = "return"

(***************************************************************************)
(* C2: every text that blurplify returns is accepted by the parser again.  *)
(***************************************************************************)
C2_OutputParses ==
    \A i \in Returned : parses(thr[i].result.text)

(***************************************************************************)
(* C6: read with Python's indentation rules, the returned text nests its   *)
(* statements in the same blocks as the tree that was parsed.              *)
(***************************************************************************)
C6_NestingPreserved ==
    \A i \in Returned :
        read_nesting(thr[i].result.text) =
            [ok |-> TRUE, shape |-> TreeShape(thr[i].src_ast, 0)]

(***************************************************************************)
(* C8: when a call has ended, by returning or by raising, the module's     *)
(* global state is what it was when the call began.                        *)
(***************************************************************************)
C8_NoGlobalWritten ==
    \A i \in Ended : source = thr[i].source_at_call

(***************************************************************************)
(* One call of _write_str_avoiding_backslashes, as the Constant case of    *)
(* unparse makes it: on a str value, with the default quote types.         *)
(***************************************************************************)
\* the characters of the string values tried
LitAlphabet == {"a", "'", "\"", "\n", "\\"}

RECURSIVE StringsUpTo(_)
StringsUpTo(n) ==
    IF n = 0 THEN {""}
    ELSE LET shorter == StringsUpTo(n - 1)
         IN  shorter \cup {s \o c : s \in shorter, c \in LitAlphabet}

LitInit ==
    /\ lit \in [pc : {"value"}, value : StringsUpTo(MaxStrLen), text : {""}]
    /\ source = UNBOUND
    /\ ex = UNUSED /\ pk = UNUSED /\ thr = UNUSED /\ cmd = UNUSED /\ lock = UNUSED
    /\ jam = UNUSED /\ inv = UNUSED

\* return _write_str_avoiding_backslashes(value)
WriteStr ==
    /\ lit.pc = "value"
    /\ \E r \in Draws :
          lit' = [lit EXCEPT !.pc = "written",
                             !.text = write_str_avoiding_backslashes(
                                          lit.value, ALL_QUOTES, r)]
    /\ UNCHANGED <<source, ex, pk, thr, cmd, lock, jam, inv>>

LitNext == WriteStr

SpecLit == LitInit /\ [][LitNext]_vars

(***************************************************************************)
(* C4: the literal written for a string value denotes that same value.     *)
(***************************************************************************)
C4_LiteralValuePreserved ==
    lit.pc = "written" => literal_value(lit.text) = lit.value

(***************************************************************************)
(* One call of unparse on an expression of two nested operator             *)
(* applications over names: every inner application in every operand       *)
(* position of every outer one.                                            *)
(***************************************************************************)
Nm(id) == [t |-> "Name", id |-> id]

Op(kind) == [t |-> kind]

BinOp(left, kind, right) ==
    [t |-> "BinOp", left |-> left, op |-> Op(kind), right |-> right]

UnaryOp(kind, operand) == [t |-> "UnaryOp", op |-> Op(kind), operand |-> operand]

BoolOp(kind, values) == [t |-> "BoolOp", op |-> Op(kind), values |-> values]

Compare(left, kinds, comparators) ==
    [t |-> "Compare", left |-> left,
     ops |-> [k \in 1..Len(kinds) |-> Op(kinds[k])],
     comparators |-> comparators]

IfExp(test, body, orelse) ==
    [t |-> "IfExp", test |-> test, body |-> body, orelse |-> orelse]

BinKinds == {"Add", "Sub", "Mult", "Pow"}
UnaryKinds == {"USub", "Not"}
BoolKinds == {"And", "Or"}
CompareKinds == {"Lt", "Eq"}

InnerExprs ==
    LET a == Nm("a")
        b == Nm("b")
        c == Nm("c")
    IN  {BinOp(a, k, b) : k \in BinKinds}
        \cup {UnaryOp(k, a) : k \in UnaryKinds}
        \cup {BoolOp(k, <<a, b>>) : k \in BoolKinds}
        \cup {Compare(a, <<k>>, <<b>>) : k \in CompareKinds}
        \cup {Compare(a, <<"Lt", "Lt">>, <<b, c>>), IfExp(a, b, c)}

OuterWith(h) ==
    LET x == Nm("x")
        y == Nm("y")
    IN  {BinOp(h, k, x) : k \in BinKinds} \cup {BinOp(x, k, h) : k \in BinKinds}
        \cup {UnaryOp(k, h) : k \in UnaryKinds}
        \cup {BoolOp(k, <<h, x>>) : k \in BoolKinds}
        \cup {BoolOp(k, <<x, h>>) : k \in BoolKinds}
        \cup {BoolOp(k, <<x, h, y>>) : k \in BoolKinds}
        \cup {Compare(h, <<k>>, <<x>>) : k \in CompareKinds}
        \cup {Compare(x, <<k>>, <<h>>) : k \in CompareKinds}
        \cup {Compare(x, <<"Lt", "Lt">>, <<h, y>>),
              Compare(x, <<"Lt", "Lt">>, <<y, h>>),
              IfExp(h, x, y), IfExp(x, h, y), IfExp(x, y, h)}

NestedExprs == UNION {OuterWith(h) : h \in InnerExprs}

ExprInit ==
    /\ ex \in [pc : {"tree"}, node : NestedExprs, text : {""}]
    /\ source = UNBOUND
    /\ lit = UNUSED /\ pk = UNUSED /\ thr = UNUSED /\ cmd = UNUSED /\ lock = UNUSED
    /\ jam = UNUSED /\ inv = UNUSED

\* unparse(node), for an expression without constants
UnparseExpr ==
    /\ ex.pc = "tree"
    /\ \E r \in Draws :
          ex' = [ex EXCEPT !.pc = "rendered", !.text = unparse(ex.node, "", r)]
    /\ UNCHANGED <<source, lit, pk, thr, cmd, lock, jam, inv>>

ExprNext == UnparseExpr

SpecExpr == ExprInit /\ [][ExprNext]_vars

(***************************************************************************)
(* C5: the text rendered for an expression of two nested operator          *)
(* applications, read with Python's precedence and associativity, is the   *)
(* tree that was rendered: the operands are grouped as in the input.       *)
(***************************************************************************)
C5_GroupingPreserved ==
    ex.pc = "rendered" => read_expression(ex.text) = ex.node

(***************************************************************************)
(* One run of the generator indent over sibling statements, one turn of    *)
(* its loop at a time.  The statements are expression statements of a      *)
(* name of 1, 30 or 60 characters or of a string with an empty line, and   *)
(* a conditional; i is the statement the loop is at, st the generator's    *)
(* state.                                                                  *)
(***************************************************************************)
RECURSIVE Repeat(_, _)
Repeat(c, k) == IF k <= 0 THEN "" ELSE c \o Repeat(c, k - 1)

ExprStmt(value) == [t |-> "Expr", lineno |-> 1, value |-> value]

\* the str constant of a literal such as "a\n\nb"
StrConstant(value) ==
    [t |-> "Constant", is_str |-> TRUE, value |-> value, lineno |-> 1,
     col_offset |-> 0, end_col_offset |-> 0]

PackPool ==
    {ExprStmt(Nm("x")), ExprStmt(Nm(Repeat("m", 30))), ExprStmt(Nm(Repeat("w", 60))),
     ExprStmt(StrConstant("a\n\nb")),
     [t |-> "If", lineno |-> 1, test |-> Nm("a"),
      body |-> <<[t |-> "Pass", lineno |-> 2]>>, orelse |-> <<>>]}

PackInputs == UNION {[1..k -> PackPool] : k \in 0..MaxStmts}

PackerInit ==
    /\ pk \in [pc : {"loop"}, nodes : PackInputs, n : {0, 2}, i : {1},
               st : {PackInit}]
    /\ source = UNBOUND
    /\ lit = UNUSED /\ ex = UNUSED /\ thr = UNUSED /\ cmd = UNUSED /\ lock = UNUSED
    /\ jam = UNUSED /\ inv = UNUSED

\* one turn of `for stmt in nodes`
PackTurn ==
    /\ pk.pc = "loop"
    /\ pk.i <= Len(pk.nodes)
    /\ ~PackRaised(pk.st)
    /\ \E r \in Draws :
          pk' = [pk EXCEPT !.st = PackStmt(pk.st, pk.nodes[pk.i], pk.n, "", r),
                           !.i = @ + 1]
    /\ UNCHANGED <<source, lit, ex, thr, cmd, lock, jam, inv>>

\* the loop is over: `if curr_chunk: yield ...`, and the generator ends; it
\* also ends when a turn has raised
PackFinish ==
    /\ pk.pc = "loop"
    /\ pk.i > Len(pk.nodes) \/ PackRaised(pk.st)
    /\ \E r \in Draws :
          pk' = [pk EXCEPT !.st = PackEnd(pk.st, pk.n, r), !.pc = "exhausted"]
    /\ UNCHANGED <<source, lit, ex, thr, cmd, lock, jam, inv>>

PackNext == PackTurn \/ PackFinish

SpecPack == PackerInit /\ [][PackNext]_vars

RECURSIVE CountChar(_, _)
CountChar(s, c) ==
    IF s = "" THEN 0
    ELSE (IF CharAt(s, 1) = c THEN 1 ELSE 0) + CountChar(SubSeq(s, 2, Len(s)), c)

\* the statements on a yielded line: each rendered statement ends with ";"
StatementsOn(line) == CountChar(line, ";")

\* the length of the statements on a yielded line: the line without its
\* indentation and without the one or two spaces between two statements
StatementText(line, n) == Len(line) - n - 2 * (StatementsOn(line) - 1)

(***************************************************************************)
(* C7: a line that the packer yields holds statement text of at most       *)
(* MAX_LINE_LENGTH characters, unless it holds a single statement: a       *)
(* statement that would take the line over the budget starts a new line.   *)
(***************************************************************************)
C7_LineBudget ==
    \A k \in 1..Len(pk.st.out) :
        StatementsOn(pk.st.out[k]) >= 2
            => StatementText(pk.st.out[k], pk.n) <= MAX_LINE_LENGTH

(***************************************************************************)
(* Calls of blurplify on different texts by threads that share no lock.    *)
(***************************************************************************)
FreeTexts == {"x=1", "y=2", "x=1\ny=22\nprint(x)", "print("}

FreeInit ==
    /\ source = UNBOUND
    /\ thr = [i \in 1..NumCalls |-> NoCall]
    /\ lit = UNUSED /\ ex = UNUSED /\ pk = UNUSED /\ cmd = UNUSED /\ lock = UNUSED
    /\ jam = UNUSED /\ inv = UNUSED

\* the texts of the calls in flight
InFlight(i) == {thr[j].src : j \in {k \in DOMAIN thr \ {i} : thr[k].pc # "idle"}}

FreeNext ==
    \E i \in DOMAIN thr :
        \/ \E src \in FreeTexts \ InFlight(i) : Call(i, src)
        \/ SetSource(i)
        \/ ParseSource(i)
        \/ Render(i)
        \/ Return(i)

SpecFree == FreeInit /\ [][FreeNext]_vars

(***************************************************************************)
(* C9: a call that runs concurrently with calls on other texts, without a  *)
(* lock, ends as it could have ended when run alone on its own text.       *)
(***************************************************************************)
C9_ConcurrentCallsIndependent ==
    \A i \in Ended : thr[i].result \in blurplify(thr[i].src)

(***************************************************************************)
(* The cog.  cmd[i] is one invocation of the command blurplify, a task of  *)
(* the event loop: pc names where it is ("acquire" before `async with`,    *)
(* "waiting" in the lock's queue, "await_thread" at asyncio.to_thread      *)
(* with the lock held), code is its argument after the code block is       *)
(* unwrapped, outcome what the awaited thread gave it, sent the messages   *)
(* it has sent.  thr[i] is the call of _format_code that the executor runs *)
(* for it: "queued" until a worker thread takes it, "dropped" when its     *)
(* future is cancelled before that.                                        *)
(***************************************************************************)
\* A TLA+ string cannot hold a backquote: the model writes it as the
\* character @, which Python source holds only inside string literals.
BACKQUOTE == "@"

\* the backquote followed by the zero-width joiner U+200D, written as its escape
QUOTE_JOINER == BACKQUOTE \o "\\u200d"

\* the title of the embed sent for a SyntaxError
INVALID_SYNTAX == "Invalid Syntax!"

\* the message of line 43: the text in a code block marked py
CodeBlock(blurpified) ==
    Repeat(BACKQUOTE, 3) \o "py\n" \o blurpified \o "\n" \o Repeat(BACKQUOTE, 3)

\* _format_code, on what blurplify ended with
format_code(result) ==
    IF result.kind = "return"
    THEN [result EXCEPT !.text = ReplaceChar(@, BACKQUOTE, QUOTE_JOINER)]
    ELSE result

NoCommand == [pc |-> "idle", code |-> "", outcome |-> NoResult, sent |-> <<>>]

\* where the command goes when the thread is done: the except clause, the
\* statement after the try, or out of the command with another exception
after_format(outcome) ==
    IF outcome.kind = "SyntaxError" THEN "send_error"
    ELSE IF outcome.kind = "return" THEN "send_code"
    ELSE "failed"

\* the except clause without its `return`
fall_through == "send_code"

\* `return`, after the embed is sent
after_error_report == "done"

CogTexts == {"x=1", "y=2", "'@'", "", "print("}

Init ==
    /\ source = UNBOUND
    /\ cmd = [i \in 1..NumCalls |-> NoCommand]
    /\ thr = [i \in 1..NumCalls |-> NoCall]
    /\ lock = [locked |-> FALSE, waiters |-> <<>>]
    /\ lit = UNUSED /\ ex = UNUSED /\ pk = UNUSED /\ jam = UNUSED /\ inv = UNUSED

\* the command is invoked
Invoke(i, code) ==
    /\ cmd[i].pc = "idle"
    /\ cmd' = [cmd EXCEPT ![i].pc = "acquire", ![i].code = code]
    /\ UNCHANGED <<source, lit, ex, pk, thr, lock, jam, inv>>

\* asyncio.to_thread(self._format_code, code): the call is handed to the executor
Submit(i) == thr' = [thr EXCEPT ![i] = [NoCall EXCEPT !.pc = "queued"]]

\* an acquire that takes the lock whether it is held or not
Acquire_barging(i) ==
    /\ cmd[i].pc = "acquire"
    /\ lock' = [lock EXCEPT !.locked = TRUE]
    /\ cmd' = [cmd EXCEPT ![i].pc = "await_thread"]
    /\ Submit(i)
    /\ UNCHANGED <<source, lit, ex, pk, jam, inv>>

\* async with self.lock: a free lock with no waiters is taken at once
Acquire(i) ==
    /\ cmd[i].pc = "acquire"
    /\ IF ~lock.locked /\ lock.waiters = <<>>
       THEN /\ lock' = [lock EXCEPT !.locked = TRUE]
            /\ cmd' = [cmd EXCEPT ![i].pc = "await_thread"]
            /\ Submit(i)
       ELSE /\ lock' = [lock EXCEPT !.waiters = Append(@, i)]
            /\ cmd' = [cmd EXCEPT ![i].pc = "waiting"]
            /\ UNCHANGED thr
    /\ UNCHANGED <<source, lit, ex, pk, jam, inv>>

\* the first waiter is woken by the release and takes the lock
Wake(i) ==
    /\ cmd[i].pc = "waiting"
    /\ ~lock.locked
    /\ lock.waiters # <<>> /\ Head(lock.waiters) = i
    /\ lock' = [locked |-> TRUE, waiters |-> Tail(lock.waiters)]
    /\ cmd' = [cmd EXCEPT ![i].pc = "await_thread"]
    /\ Submit(i)
    /\ UNCHANGED <<source, lit, ex, pk, jam, inv>>

\* a worker thread takes the call: _format_code enters blurplify(code)
StartWork(i) ==
    /\ thr[i].pc = "queued"
    /\ Enter(i, cmd[i].code)
    /\ UNCHANGED <<source, lit, ex, pk, cmd, lock, jam, inv>>

\* the thread is done: the lock is released and the command goes on
Resume(i) ==
    /\ cmd[i].pc = "await_thread"
    /\ thr[i].pc = "done"
    /\ LET outcome == format_code(thr[i].result)
       IN  cmd' = [cmd EXCEPT ![i].outcome = outcome, ![i].pc = after_format(outcome)]
    /\ lock' = [lock EXCEPT !.locked = FALSE]
    /\ UNCHANGED <<source, lit, ex, pk, thr, jam, inv>>

\* except SyntaxError: the embed is sent, and the command returns
SendError(i) ==
    /\ cmd[i].pc = "send_error"
    /\ cmd' = [cmd EXCEPT ![i].sent = Append(@, INVALID_SYNTAX),
                          ![i].pc = after_error_report]
    /\ UNCHANGED <<source, lit, ex, pk, thr, lock, jam, inv>>

\* await ctx.send(...) of the code block
SendCode(i) ==
    /\ cmd[i].pc = "send_code"
    /\ cmd' = [cmd EXCEPT ![i].sent = Append(@, CodeBlock(cmd[i].outcome.text)),
                          ![i].pc = "done"]
    /\ UNCHANGED <<source, lit, ex, pk, thr, lock, jam, inv>>

\* the task is cancelled while it waits for the lock: it leaves the queue
CancelWaiting(i) ==
    /\ cmd[i].pc = "waiting"
    /\ lock' = [lock EXCEPT !.waiters = SelectSeq(@, LAMBDA j : j # i)]
    /\ cmd' = [cmd EXCEPT ![i].pc = "cancelled"]
    /\ UNCHANGED <<source, lit, ex, pk, thr, jam, inv>>

\* the task is cancelled while it awaits the thread: `async with` releases
\* the lock; a call that no worker has taken is dropped, a running one runs on
CancelAwaiting(i) ==
    /\ cmd[i].pc = "await_thread"
    /\ lock' = [lock EXCEPT !.locked = FALSE]
    /\ cmd' = [cmd EXCEPT ![i].pc = "cancelled"]
    /\ thr' = [thr EXCEPT ![i].pc = IF @ = "queued" THEN "dropped" ELSE @]
    /\ UNCHANGED <<source, lit, ex, pk, jam, inv>>

\* the steps of the threads leave the commands and the lock alone
Next ==
    \E i \in DOMAIN cmd :
        \/ \E code \in CogTexts : Invoke(i, code)
        \/ Acquire(i)
        \/ Wake(i)
        \/ StartWork(i)
        \/ SetSource(i)
        \/ ParseSource(i)
        \/ Render(i)
        \/ Resume(i)
        \/ SendError(i)
        \/ SendCode(i)
        \/ CancelWaiting(i)
        \/ CancelAwaiting(i)

Spec == Init /\ [][Next]_vars

(***************************************************************************)
(* C3: on a text that is not valid syntax, the call ends with SyntaxError  *)
(* and no text, and the command sends the "Invalid Syntax!" report and     *)
(* nothing else: never a code block.                                       *)
(***************************************************************************)
C3_InvalidSyntaxReported ==
    \A i \in DOMAIN cmd :
        cmd[i].code \in InvalidTexts =>
            /\ thr[i].pc = "done" =>
                   thr[i].result = [kind |-> "SyntaxError", text |-> ""]
            /\ \A k \in 1..Len(cmd[i].sent) : cmd[i].sent[k] = INVALID_SYNTAX
            /\ cmd[i].pc = "done" => cmd[i].sent = <<INVALID_SYNTAX>>

\* an invocation on an invalid text has ended, with its report sent
C3_Witness ==
    \E i \in DOMAIN cmd :
        /\ cmd[i].code \in InvalidTexts
        /\ cmd[i].pc = "done"
        /\ thr[i].result.kind = "SyntaxError"
        /\ cmd[i].sent = <<INVALID_SYNTAX>>

(***************************************************************************)
(* C10: whatever invocations were cancelled before or meanwhile, an        *)
(* invocation that gets the outcome of its call gets one that the call     *)
(* could have had when run alone: an abandoned call changes no later one.  *)
(***************************************************************************)
C10_AbandonedCallHarmless ==
    \A i \in DOMAIN cmd :
        cmd[i].pc \in {"send_error", "send_code", "failed", "done"} =>
            cmd[i].outcome \in {format_code(o) : o \in blurplify(cmd[i].code)}

(***************************************************************************)
(* The Constant nodes of a tree, for the node classes of the model.        *)
(***************************************************************************)
RECURSIVE Constants(_)
RECURSIVE ConstantsOf(_)
ConstantsOf(nodes) == UNION {Constants(nodes[k]) : k \in 1..Len(nodes)}

Constants(node) ==
    CASE node.t = "Constant" -> {node}
      [] node.t \in {"Module", "FunctionDef"} -> ConstantsOf(node.body)
      [] node.t \in {"Expr", "Attribute", "Starred", "FormattedValue"} ->
            Constants(node.value)
      [] node.t = "Assign" -> ConstantsOf(node.targets) \cup Constants(node.value)
      [] node.t = "If" ->
            Constants(node.test) \cup ConstantsOf(node.body)
            \cup ConstantsOf(node.orelse)
      [] node.t = "Return" ->
            IF node.value = None THEN {} ELSE Constants(node.value)
      [] node.t = "Assert" ->
            Constants(node.test)
            \cup (IF node.msg = None THEN {} ELSE Constants(node.msg))
      [] node.t = "Call" -> Constants(node.func) \cup ConstantsOf(node.args)
      [] node.t = "BinOp" -> Constants(node.left) \cup Constants(node.right)
      [] node.t = "UnaryOp" -> Constants(node.operand)
      [] node.t \in {"BoolOp", "JoinedStr"} -> ConstantsOf(node.values)
      [] node.t = "Compare" ->
            Constants(node.left) \cup ConstantsOf(node.comparators)
      [] node.t = "IfExp" ->
            Constants(node.test) \cup Constants(node.body)
            \cup Constants(node.orelse)
      [] node.t = "Subscript" -> Constants(node.value) \cup Constants(node.slice)
      [] OTHER -> {}

\* some draws: the rendering of a constant that is no string uses none
AnyDraws == CHOOSE r \in Draws : TRUE

\* the tree is a program of several simple statements
SeveralSimple(tree) ==
    /\ Len(tree.body) >= 2
    /\ \A k \in 1..Len(tree.body) : tree.body[k].t \in semicolon_able

(***************************************************************************)
(* C11: when a call on several simple statements returns, every literal    *)
(* that is not a string is rendered as the text it has in the input,       *)
(* whatever line it stands on.                                             *)
(***************************************************************************)
C11_LiteralTextKept ==
    \A i \in Returned :
        SeveralSimple(thr[i].src_ast) =>
            \A c \in Constants(thr[i].src_ast) :
                ~c.is_str => unparse(c, source.value, AnyDraws) = c.value

(***************************************************************************)
(* Reading the parentheses of a rendered expression.  The random draws are *)
(* blanks only, so a text without its blanks and line breaks is the same   *)
(* for all draws.  An operand is shown bare, as its own rendering, or      *)
(* wrapped, with one more pair of parentheses around that.                 *)
(***************************************************************************)
RECURSIVE Squeeze(_)
Squeeze(s) ==
    IF s = "" THEN ""
    ELSE (IF CharAt(s, 1) \in {" ", "\n"} THEN "" ELSE CharAt(s, 1))
         \o Squeeze(SubSeq(s, 2, Len(s)))

Bare(node) == Squeeze(unparse(node, "", AnyDraws))

Wrapped(node) == "(" \o Bare(node) \o ")"

Shown(paren, node) == IF paren THEN Wrapped(node) ELSE Bare(node)

\* an expression has been rendered
Rendered == ex.pc = "rendered"

(***************************************************************************)
(* C15: a binary operator of rank p is rendered with its left operand in   *)
(* parentheses exactly when the operand's rank is below p, and its right   *)
(* operand exactly when the rank is at most p; for ** the two are swapped. *)
(***************************************************************************)
C15_BinOpParens ==
    Rendered /\ ex.node.t = "BinOp" =>
        LET p == precedences(ex.node.op.t)
            pl == get_precedence(ex.node.left)
            pr == get_precedence(ex.node.right)
            right_assoc == ex.node.op.t = "Pow"
            par_left == IF right_assoc THEN pl <= p ELSE pl < p
            par_right == IF right_assoc THEN pr < p ELSE pr <= p
        IN  Squeeze(ex.text) =
                "(" \o Shown(par_left, ex.node.left) \o op_strs[ex.node.op.t]
                \o Shown(par_right, ex.node.right) \o ")"

\* (a ** b) ** x is rendered, with its left operand in parentheses
C15_Witness ==
    /\ Rendered
    /\ ex.node = BinOp(BinOp(Nm("a"), "Pow", Nm("b")), "Pow", Nm("x"))
    /\ Squeeze(ex.text) = "(((a**b))**x)"

(***************************************************************************)
(* C16: in a chain of and / or, each operand whose rank is at most the     *)
(* rank of the chain's operator is in parentheses, wherever it stands, and *)
(* each operand of higher rank is rendered as it is.                       *)
(***************************************************************************)
C16_BoolOpParens ==
    Rendered /\ ex.node.t = "BoolOp" =>
        LET p == precedences(ex.node.op.t)
            values == ex.node.values
        IN  Squeeze(ex.text) =
                Join(op_strs[ex.node.op.t],
                     [k \in 1..Len(values) |->
                         Shown(get_precedence(values[k]) <= p, values[k])])

\* x and (a and b) and y is rendered: the middle operand has the chain's rank
C16_Witness ==
    /\ Rendered
    /\ ex.node = BoolOp("And", <<Nm("x"), BoolOp("And", <<Nm("a"), Nm("b")>>), Nm("y")>>)
    /\ Squeeze(ex.text) = "xand(aandb)andy"

(***************************************************************************)
(* C17: in a comparison chain, each operand (the left one and every        *)
(* comparator) whose own rank is at most the rank of the comparison        *)
(* operators is in parentheses.                                            *)
(***************************************************************************)
C17_CompareParens ==
    Rendered /\ ex.node.t = "Compare" =>
        LET p == precedences(ex.node.ops[1].t)
            operands == <<ex.node.left>> \o ex.node.comparators
        IN  \E paren \in [1..Len(operands) -> BOOLEAN] :
                /\ \A k \in 1..Len(operands) :
                       get_precedence(operands[k]) <= p => paren[k]
                /\ Squeeze(ex.text) =
                       Shown(paren[1], operands[1])
                       \o Join("", [k \in 1..Len(ex.node.ops) |->
                                       op_strs[ex.node.ops[k].t]
                                       \o Shown(paren[k + 1], operands[k + 1])])

(***************************************************************************)
(* One call of unparse on an expression that has a sub-expression in a     *)
(* structural position: the target of a call, the base of a subscript,     *)
(* the base of an attribute access, the operand of a starred expression.   *)
(***************************************************************************)
CallExpr(func, args) == [t |-> "Call", func |-> func, args |-> args]

Subscript(value, slice) == [t |-> "Subscript", value |-> value, slice |-> slice]

Attribute(value, attr) == [t |-> "Attribute", value |-> value, attr |-> attr]

Starred(value) == [t |-> "Starred", value |-> value]

PositionBases ==
    InnerExprs
    \cup {Nm("f"), CallExpr(Nm("f"), <<>>), Subscript(Nm("a"), Nm("i")),
          Attribute(Nm("a"), "b")}

PositionExprs ==
    UNION {{CallExpr(h, <<Nm("x")>>), Subscript(h, Nm("i")), Attribute(h, "m"),
            Starred(h)} : h \in PositionBases}

PositionInit ==
    /\ ex \in [pc : {"tree"}, node : PositionExprs, text : {""}]
    /\ source = UNBOUND
    /\ lit = UNUSED /\ pk = UNUSED /\ thr = UNUSED /\ cmd = UNUSED /\ lock = UNUSED
    /\ jam = UNUSED /\ inv = UNUSED

SpecPosition == PositionInit /\ [][ExprNext]_vars

\* text begins with start
Begins(text, start) ==
    Len(start) <= Len(text) /\ SubSeq(text, 1, Len(start)) = start

RECURSIVE ClosedAt(_, _, _)
\* the position in text where the bracket nesting opened before i is closed
ClosedAt(text, i, depth) ==
    IF i > Len(text) THEN 0
    ELSE LET ch == SubSeq(text, i, i)
             d == CASE ch = "(" -> depth + 1
                    [] ch = ")" -> depth - 1
                    [] OTHER -> depth
         IN  IF d = 0 THEN i ELSE ClosedAt(text, i + 1, d)

\* text is one parenthesized group
Enclosed(text) ==
    Len(text) >= 2 /\ SubSeq(text, 1, 1) = "(" /\ ClosedAt(text, 2, 1) = Len(text)

\* the sub-expression in the structural position of node
Positioned(node) ==
    CASE node.t = "Call" -> node.func
      [] OTHER -> node.value

(***************************************************************************)
(* C18: the target of a call, the base of a subscript and the base of an   *)
(* attribute access are in parentheses when their rank is below the rank   *)
(* of calls, subscripts and attribute accesses; the operand of a starred   *)
(* expression is always in parentheses.                                    *)
(***************************************************************************)
C18_PositionParens ==
    Rendered /\ ex.node.t \in {"Call", "Subscript", "Attribute", "Starred"} =>
        LET base == Positioned(ex.node)
            text == Squeeze(ex.text)
        IN  IF ex.node.t = "Starred"
            THEN text = "*" \o Wrapped(base)
            ELSE get_precedence(base) < get_precedence(ex.node) =>
                    \/ Begins(text, Wrapped(base))
                    \/ Enclosed(Bare(base)) /\ Begins(text, Bare(base))

(***************************************************************************)
(* Two calls of get_precedence, on two nodes of any kinds: leaves of every *)
(* kind in the table, applications of every operator, comparison chains    *)
(* of mixed operators, and kinds that ast.parse builds in expressions and  *)
(* that have no entry in the table.                                        *)
(***************************************************************************)
TabledNodeKinds ==
    precedence_classes[1] \cup precedence_classes[2]
    \cup {"Await", "IfExp", "Lambda", "NamedExpr"}

AllBinKinds ==
    {"Pow", "Mult", "MatMult", "Div", "FloorDiv", "Mod", "Add", "Sub", "LShift",
     "RShift", "BitAnd", "BitXor", "BitOr"}

AllUnaryKinds == {"UAdd", "USub", "Invert", "Not"}

AllCompareKinds == precedence_classes[12]

\* expression kinds of the ast module that are absent from precedences
UntabledKinds == {"Starred", "Yield", "YieldFrom", "Slice", "FormattedValue"}

RankNodes ==
    LET a == Nm("a")
        b == Nm("b")
        c == Nm("c")
    IN  {[t |-> k] : k \in TabledNodeKinds \cup UntabledKinds}
        \cup {BinOp(a, k, b) : k \in AllBinKinds}
        \cup {UnaryOp(k, a) : k \in AllUnaryKinds}
        \cup {BoolOp(k, <<a, b>>) : k \in BoolKinds}
        \cup {Compare(a, <<k>>, <<b>>) : k \in AllCompareKinds}
        \cup {Compare(a, <<"Lt", k>>, <<b, c>>) : k \in {"Eq", "In", "IsNot"}}

RankInit ==
    /\ ex \in [pc : {"nodes"}, node : RankNodes, other : RankNodes,
               rank : {0}, other_rank : {0}]
    /\ source = UNBOUND
    /\ lit = UNUSED /\ pk = UNUSED /\ thr = UNUSED /\ cmd = UNUSED /\ lock = UNUSED
    /\ jam = UNUSED /\ inv = UNUSED

\* get_precedence(node), get_precedence(other)
GetPrecedence ==
    /\ ex.pc = "nodes"
    /\ ex' = [ex EXCEPT !.pc = "ranked",
                        !.rank = get_precedence(ex.node),
                        !.other_rank = get_precedence(ex.other)]
    /\ UNCHANGED <<source, lit, pk, thr, cmd, lock, jam, inv>>

RankNext == GetPrecedence

SpecRank == RankInit /\ [][RankNext]_vars

Ranked == ex.pc = "ranked"

\* the operators a node applies; its own kind when it applies none
KindsOf(node) ==
    CASE node.t \in {"BoolOp", "BinOp", "UnaryOp"} -> {node.op.t}
      [] node.t = "Compare" -> {node.ops[k].t : k \in 1..Len(node.ops)}
      [] OTHER -> {node.t}

(***************************************************************************)
(* Operator precedence of the Python language reference (section           *)
(* "Operator precedence"), from the least binding level to the most        *)
(* binding one.                                                            *)
(***************************************************************************)
python_binding ==
    << {"NamedExpr"},
       {"Lambda"},
       {"IfExp"},
       {"Or"},
       {"And"},
       {"Not"},
       {"In", "NotIn", "Is", "IsNot", "Lt", "LtE", "Gt", "GtE", "NotEq", "Eq"},
       {"BitOr"},
       {"BitXor"},
       {"BitAnd"},
       {"LShift", "RShift"},
       {"Add", "Sub"},
       {"Mult", "MatMult", "Div", "FloorDiv", "Mod"},
       {"UAdd", "USub", "Invert"},
       {"Pow"},
       {"Await"},
       {"Subscript", "Call", "Attribute"},
       {"Name", "Constant", "JoinedStr", "List", "ListComp", "Dict", "DictComp",
        "Set", "SetComp", "Tuple", "GeneratorExp"} >>

Binding(kind) ==
    CHOOSE j \in 1..Len(python_binding) : kind \in python_binding[j]

(***************************************************************************)
(* C19: get_precedence of a boolean chain, a binary or a unary operator    *)
(* application is the table rank of its operator; of a comparison chain,   *)
(* a rank equal to the table rank of every operator of the chain; and of   *)
(* two nodes whose kinds are in the table, the one whose kind binds        *)
(* tighter has the strictly higher rank, kinds of one precedence class     *)
(* have equal ranks.                                                       *)
(***************************************************************************)
C19_OperatorRank ==
    Ranked =>
        /\ ex.node.t \in {"BoolOp", "BinOp", "UnaryOp", "Compare"} =>
               \A k \in KindsOf(ex.node) : ex.rank = precedences(k)
        /\ \A k \in KindsOf(ex.node), j \in KindsOf(ex.other) :
               InPrecedences(k) /\ InPrecedences(j) =>
                   /\ Binding(k) > Binding(j) => ex.rank > ex.other_rank
                   /\ Binding(k) = Binding(j) => ex.rank = ex.other_rank

\* a < b in c is ranked against a + b: one rank for both operators of the
\* chain, below the rank of +
C19_Witness ==
    /\ Ranked
    /\ ex.node = BinOp(Nm("a"), "Add", Nm("b"))
    /\ ex.other = Compare(Nm("a"), <<"Lt", "In">>, <<Nm("b"), Nm("c")>>)
    /\ ex.other_rank = precedences("In")
    /\ ex.rank > ex.other_rank

(***************************************************************************)
(* C20: get_precedence of a node whose kind has no entry in the table is   *)
(* a rank held by an atomic kind (a name, a literal, a container display,  *)
(* a call, a subscript, an attribute access), and no kind of expression    *)
(* that ast.parse builds is without an entry.                              *)
(***************************************************************************)
C20_UnknownKindRank ==
    Ranked /\ (\A k \in KindsOf(ex.node) : ~InPrecedences(k)) =>
        /\ ex.rank \in {precedences(atom) :
                           atom \in precedence_classes[1] \cup precedence_classes[2]}
        /\ ex.node.t \notin UntabledKinds

(***************************************************************************)
(* The code jam creation utilities (bot/exts/code_jams).  jam is one call  *)
(* of creation_flow, of create_team_role or of _get_category (jam.top),    *)
(* at the statement jam.pc; jam.calls lists the calls made so far to the   *)
(* Discord API and to the code jam management API, in order.  A category   *)
(* is its name, the number of its channels and what it was created with:   *)
(* hidden from the default role, readable by the bot.  jam.guild.main is   *)
(* the place of the channel Channels.summer_code_jam in guild.categories,  *)
(* 0 when guild.get_channel finds none.                                    *)
(***************************************************************************)
MAX_CHANNELS == 50

CATEGORY_NAME == "Code Jam"

TEAM_LEADER_ROLE_NAME == "Code Jam Team Leaders"

MaxCategories == 2
MaxEntries == 2
MaxTeams == 2

ApiCall(op, who, what, at) == [op |-> op, who |-> who, what |-> what, at |-> at]

NoValue == [kind |-> "None", at |-> 0, name |-> ""]

CategoryRef(at) == [kind |-> "category", at |-> at, name |-> CATEGORY_NAME]

RoleRef(name) == [kind |-> "role", at |-> 0, name |-> name]

\* a category that is taken even when it is full
has_room_or_full(category) ==
    category.name = CATEGORY_NAME /\ category.channels <= MAX_CHANNELS

\* category.name == CATEGORY_NAME and len(category.channels) < MAX_CHANNELS
has_room(category) ==
    category.name = CATEGORY_NAME /\ category.channels < MAX_CHANNELS

\* the leaders role given to every entry
add_team_leader_role_to_all(entry, team_leaders, calls) ==
    Append(calls, ApiCall("add_roles", entry.member, team_leaders, 0))

\* if entry["is_leader"]: await entry["member"].add_roles(team_leaders)
add_team_leader_role(entry, team_leaders, calls) ==
    IF entry.is_leader
    THEN Append(calls, ApiCall("add_roles", entry.member, team_leaders, 0))
    ELSE calls

\* the leaders channel left out
without_leader_channel == "team_loop"

\* the statement after the creation of the leaders role
after_leaders_role == "create_team_leader_channel"

\* the members of the team the loop of creation_flow is at
TeamMembers == jam.teams[jam.k].members

\* team_leaders = await ctx.guild.create_role(name=TEAM_LEADER_ROLE_NAME, ...)
CreateLeadersRole ==
    /\ jam.pc = "creation_flow"
    /\ jam' = [jam EXCEPT
                 !.calls = Append(@, ApiCall("create_role", "guild",
                                             TEAM_LEADER_ROLE_NAME, 0)),
                 !.pc = after_leaders_role]
    /\ UNCHANGED <<source, lit, ex, pk, thr, cmd, lock, inv>>

\* create_team_leader_channel: category.create_text_channel
LeaderChannelCreate ==
    /\ jam.pc = "create_team_leader_channel"
    /\ jam' = IF jam.guild.main = 0
              THEN [jam EXCEPT !.pc = "raised",
                               !.result = [raised |-> "AttributeError",
                                           value |-> NoValue]]
              ELSE [jam EXCEPT
                      !.guild.categories[jam.guild.main].channels = @ + 1,
                      !.calls = Append(@, ApiCall("create_text_channel", "category",
                                                  "team-leaders-chat",
                                                  jam.guild.main)),
                      !.pc = "leader_channel_status"]
    /\ UNCHANGED <<source, lit, ex, pk, thr, cmd, lock, inv>>

\* create_team_leader_channel: _send_status_update
LeaderChannelStatus ==
    /\ jam.pc = "leader_channel_status"
    /\ jam' = [jam EXCEPT
                 !.calls = Append(@, ApiCall("send", "code_jam_planning",
                                             "status", 0)),
                 !.pc = "team_loop"]
    /\ UNCHANGED <<source, lit, ex, pk, thr, cmd, lock, inv>>

\* for team_name, team_members in teams.items(): the call of create_team_role
TeamLoop ==
    /\ jam.pc = "team_loop"
    /\ jam' = IF jam.k <= Len(jam.teams)
              THEN [jam EXCEPT !.pc = "_add_team_leader_roles", !.j = 1]
              ELSE [jam EXCEPT !.pc = "post"]
    /\ UNCHANGED <<source, lit, ex, pk, thr, cmd, lock, inv>>

\* _add_team_leader_roles: one turn of for entry in members
AddTeamLeaderRole ==
    /\ jam.pc = "_add_team_leader_roles"
    /\ jam' = [jam EXCEPT
                 !.calls = add_team_leader_role(TeamMembers[jam.j], jam.leaders, @),
                 !.j = IF jam.j = Len(TeamMembers) THEN 1 ELSE @ + 1,
                 !.pc = IF jam.j = Len(TeamMembers) THEN "create_role" ELSE @]
    /\ UNCHANGED <<source, lit, ex, pk, thr, cmd, lock, inv>>

\* team_role = await guild.create_role(name=team_name, ...)
CreateTeamRole ==
    /\ jam.pc = "create_role"
    /\ jam' = [jam EXCEPT
                 !.calls = Append(@, ApiCall("create_role", "guild",
                                             jam.teams[jam.k].name, 0)),
                 !.pc = "add_roles"]
    /\ UNCHANGED <<source, lit, ex, pk, thr, cmd, lock, inv>>

\* create_team_role: one turn of for entry in members, return team_role after
\* the last
AddTeamRole ==
    /\ jam.pc = "add_roles"
    /\ LET granted == [jam EXCEPT
                         !.calls = Append(@, ApiCall("add_roles",
                                                     TeamMembers[jam.j].member,
                                                     jam.teams[jam.k].name, 0)),
                         !.j = IF jam.j = Len(TeamMembers) THEN 1 ELSE @ + 1]
           returned == [granted EXCEPT !.pc = "returned",
                           !.result = [raised |-> "",
                                       value |-> RoleRef(jam.teams[jam.k].name)]]
       IN  jam' = IF jam.j < Len(TeamMembers) THEN granted
                  ELSE IF jam.top = "creation_flow"
                       THEN [granted EXCEPT !.pc = "_get_category"]
                       ELSE returned
    /\ UNCHANGED <<source, lit, ex, pk, thr, cmd, lock, inv>>

\* _get_category, up to its return or to the call of _create_category
GetCategory ==
    /\ jam.pc = "_get_category"
    /\ LET categories == jam.guild.categories
           fitting == {i \in 1..Len(categories) : has_room(categories[i])}
           first == CHOOSE i \in fitting : \A other \in fitting : i <= other
       IN  jam' =
             IF jam.guild.main = 0
             THEN [jam EXCEPT !.pc = "raised",
                              !.result = [raised |-> "AttributeError",
                                          value |-> NoValue]]
             ELSE IF categories[jam.guild.main].name = CATEGORY_NAME
             THEN [jam EXCEPT !.pc = "raised",
                              !.result = [raised |-> "JamCategoryNameConflictError",
                                          value |-> NoValue]]
             ELSE IF fitting # {}
             THEN IF jam.top = "creation_flow"
                  THEN [jam EXCEPT !.category = first, !.pc = "create_text_channel"]
                  ELSE [jam EXCEPT !.category = first, !.pc = "returned",
                                   !.result = [raised |-> "",
                                               value |-> CategoryRef(first)]]
             ELSE [jam EXCEPT !.pc = "_create_category"]
    /\ UNCHANGED <<source, lit, ex, pk, thr, cmd, lock, inv>>

\* _create_category: guild.create_category_channel
CreateCategory ==
    /\ jam.pc = "_create_category"
    /\ jam' = [jam EXCEPT
                 !.guild.categories =
                     Append(@, [name |-> CATEGORY_NAME, channels |-> 0,
                                hidden |-> TRUE, readable |-> TRUE]),
                 !.category = Len(jam.guild.categories) + 1,
                 !.calls = Append(@, ApiCall("create_category_channel", "guild",
                                             CATEGORY_NAME, 0)),
                 !.pc = "category_status"]
    /\ UNCHANGED <<source, lit, ex, pk, thr, cmd, lock, inv>>

\* _create_category: _send_status_update, return category
CategoryStatus ==
    /\ jam.pc = "category_status"
    /\ LET told == [jam EXCEPT
                      !.calls = Append(@, ApiCall("send", "code_jam_planning",
                                                  "status", 0))]
       IN  jam' = IF jam.top = "creation_flow"
                  THEN [told EXCEPT !.pc = "create_text_channel"]
                  ELSE [told EXCEPT !.pc = "returned",
                                    !.result = [raised |-> "",
                                                value |-> CategoryRef(jam.category)]]
    /\ UNCHANGED <<source, lit, ex, pk, thr, cmd, lock, inv>>

\* create_team_channel: code_jam_category.create_text_channel, and the end
\* of the turn of the loop of creation_flow
CreateTextChannel ==
    /\ jam.pc = "create_text_channel"
    /\ jam' = [jam EXCEPT
                 !.guild.categories[jam.category].channels = @ + 1,
                 !.calls = Append(@, ApiCall("create_text_channel", "category",
                                             jam.teams[jam.k].name, jam.category)),
                 !.k = @ + 1,
                 !.pc = "team_loop"]
    /\ UNCHANGED <<source, lit, ex, pk, thr, cmd, lock, inv>>

\* await bot.code_jam_mgmt_api.post("codejams", json=jam_api_format)
Post ==
    /\ jam.pc = "post"
    /\ jam' = [jam EXCEPT
                 !.calls = Append(@, ApiCall("post", "code_jam_mgmt_api",
                                             "codejams", 0)),
                 !.pc = "send"]
    /\ UNCHANGED <<source, lit, ex, pk, thr, cmd, lock, inv>>

\* await ctx.send(embed=success_embed, view=team_info_view)
Send ==
    /\ jam.pc = "send"
    /\ jam' = [jam EXCEPT
                 !.calls = Append(@, ApiCall("send", "ctx", "success_embed", 0)),
                 !.pc = "returned"]
    /\ UNCHANGED <<source, lit, ex, pk, thr, cmd, lock, inv>>

\* the awaited call of the statement at jam.pc raises
ApiRaise ==
    /\ \/ jam.pc \in {"creation_flow", "leader_channel_status", "create_role",
                      "add_roles", "_create_category", "category_status",
                      "create_text_channel", "post", "send"}
       \/ jam.pc = "create_team_leader_channel" /\ jam.guild.main # 0
       \/ jam.pc = "_add_team_leader_roles" /\ TeamMembers[jam.j].is_leader
    /\ jam' = [jam EXCEPT !.pc = "raised",
                          !.result = [raised |-> "HTTPException", value |-> NoValue]]
    /\ UNCHANGED <<source, lit, ex, pk, thr, cmd, lock, inv>>

Members == {"ann", "bob"}

Entries == [member : Members, is_leader : BOOLEAN]

MemberLists == UNION {[1..n -> Entries] : n \in 1..MaxEntries}

TeamName(k) == "team-" \o Repeat("i", k)

\* the lists of a CSV file that names the same members in every team: ann,
\* leader or not, and then bob
FlowLists ==
    {members \in MemberLists :
        /\ members[1].member = "ann"
        /\ \A i \in 2..Len(members) :
               members[i] = [member |-> "bob", is_leader |-> FALSE]}

Teams ==
    UNION {{[k \in 1..n |-> [name |-> TeamName(k), members |-> lists[k]]] :
               lists \in [1..n -> FlowLists]} : n \in 0..MaxTeams}

Categories ==
    [name : {CATEGORY_NAME, "Summer Code Jam"},
     channels : {MAX_CHANNELS - 1, MAX_CHANNELS},
     hidden : {FALSE}, readable : {FALSE}]

Guilds ==
    UNION {{[categories |-> categories, main |-> main] :
               main \in 0..Len(categories)} :
           categories \in UNION {[1..n -> Categories] : n \in 0..MaxCategories}}

JamAt(top, pc, guild, teams) ==
    [top |-> top, pc |-> pc, guild |-> guild, before |-> guild, teams |-> teams,
     k |-> 1, j |-> 1, leaders |-> TEAM_LEADER_ROLE_NAME, category |-> 0,
     calls |-> <<>>, result |-> [raised |-> "", value |-> NoValue]]

OnlyJam ==
    /\ source = UNBOUND
    /\ lit = UNUSED /\ ex = UNUSED /\ pk = UNUSED /\ thr = UNUSED
    /\ cmd = UNUSED /\ lock = UNUSED /\ inv = UNUSED

CategoryInit ==
    /\ jam \in {JamAt("_get_category", "_get_category", guild, <<>>) :
                   guild \in Guilds}
    /\ OnlyJam

SpecCategory ==
    CategoryInit /\ [][GetCategory \/ CreateCategory \/ CategoryStatus \/ ApiRaise]_vars

RoleInit ==
    /\ jam \in {JamAt("create_team_role", "_add_team_leader_roles",
                      [categories |-> <<>>, main |-> 0],
                      <<[name |-> TeamName(1), members |-> members]>>) :
                   members \in MemberLists}
    /\ OnlyJam

SpecRole ==
    RoleInit
    /\ [][AddTeamLeaderRole \/ CreateTeamRole \/ AddTeamRole \/ ApiRaise]_vars

FlowInit ==
    /\ jam \in {JamAt("creation_flow", "creation_flow", guild, teams) :
                   guild \in {g \in Guilds : g.main <= 1}, teams \in Teams}
    /\ OnlyJam

FlowNext ==
    \/ CreateLeadersRole \/ LeaderChannelCreate \/ LeaderChannelStatus
    \/ TeamLoop \/ AddTeamLeaderRole \/ CreateTeamRole \/ AddTeamRole
    \/ GetCategory \/ CreateCategory \/ CategoryStatus \/ CreateTextChannel
    \/ Post \/ Send \/ ApiRaise

SpecFlow == FlowInit /\ [][FlowNext]_vars

\* the call of _get_category has ended, and no call to Discord failed in it
CategoryEnded ==
    /\ jam.top = "_get_category"
    /\ \/ jam.pc = "returned"
       \/ jam.pc = "raised" /\ jam.result.raised # "HTTPException"

\* the guild is as it was and nothing was sent
NothingCreated == jam.guild = jam.before /\ jam.calls = <<>>

\* what _get_category is to do: return the first open category and create
\* nothing, or create one category, send one status update and return it
GetCategoryOutcome ==
    LET old == jam.before.categories
        open == {i \in 1..Len(old) :
                    old[i].name = CATEGORY_NAME /\ old[i].channels < MAX_CHANNELS}
    IN  /\ jam.pc = "returned"
        /\ IF open # {}
           THEN /\ jam.result.value.kind = "category"
                /\ jam.result.value.at \in open
                /\ \A i \in open : jam.result.value.at <= i
                /\ NothingCreated
           ELSE /\ jam.guild.categories =
                       Append(old, [name |-> CATEGORY_NAME, channels |-> 0,
                                    hidden |-> TRUE, readable |-> TRUE])
                /\ jam.calls =
                       << ApiCall("create_category_channel", "guild",
                                  CATEGORY_NAME, 0),
                          ApiCall("send", "code_jam_planning", "status", 0) >>
                /\ jam.result.value = CategoryRef(Len(old) + 1)

RoleEnded == jam.top = "create_team_role" /\ jam.pc = "returned"

\* the number of times role was given to member
Grants(member, role) ==
    Cardinality({i \in 1..Len(jam.calls) :
                    jam.calls[i] = ApiCall("add_roles", member, role, 0)})

\* the number of roles given to member
AllGrants(member) ==
    Cardinality({i \in 1..Len(jam.calls) :
                    jam.calls[i].op = "add_roles" /\ jam.calls[i].who = member})

\* the entries of the list that name member
EntriesOf(member) ==
    {i \in 1..Len(jam.teams[1].members) : jam.teams[1].members[i].member = member}

\* the entries of the list that name member as a leader
LeaderEntriesOf(member) ==
    {i \in EntriesOf(member) : jam.teams[1].members[i].is_leader}

(***************************************************************************)
(* C13, as stated: create_team_role gives the new team role exactly once   *)
(* to every listed member, the leaders role exactly once to every member   *)
(* flagged as leader and to no other, and no other role: one grant to a    *)
(* non-leader, two to a leader.                                            *)
(***************************************************************************)
C13_AsStated ==
    RoleEnded =>
        \A member \in Members :
            LET listed == IF EntriesOf(member) # {} THEN 1 ELSE 0
                flagged == IF LeaderEntriesOf(member) # {} THEN 1 ELSE 0
            IN  /\ Grants(member, jam.teams[1].name) = listed
                /\ Grants(member, jam.leaders) = flagged
                /\ AllGrants(member) = listed + flagged

(***************************************************************************)
(* C13, amended: create_team_role gives the new team role once for every   *)
(* entry of the list, the leaders role once for every entry flagged as     *)
(* leader, and no other role; a member listed in one entry gets exactly    *)
(* one grant when not flagged and exactly two when flagged.                *)
(***************************************************************************)
C13_GrantsPerEntry ==
    RoleEnded =>
        \A member \in Members :
            /\ Grants(member, jam.teams[1].name) = Cardinality(EntriesOf(member))
            /\ Grants(member, jam.leaders) = Cardinality(LeaderEntriesOf(member))
            /\ AllGrants(member) =
                   Cardinality(EntriesOf(member))
                   + Cardinality(LeaderEntriesOf(member))
            /\ Cardinality(EntriesOf(member)) = 1 =>
                   AllGrants(member) = IF LeaderEntriesOf(member) # {} THEN 2 ELSE 1

\* a leader and a non-leader were given their roles: two grants and one
C13_Witness ==
    /\ RoleEnded
    /\ jam.teams[1].members = << [member |-> "ann", is_leader |-> TRUE],
                                 [member |-> "bob", is_leader |-> FALSE] >>
    /\ AllGrants("ann") = 2
    /\ AllGrants("bob") = 1

\* the places in jam.calls of the calls of op with what
Where(op, what) ==
    {i \in 1..Len(jam.calls) : jam.calls[i].op = op /\ jam.calls[i].what = what}

\* every call at a place of first was made before every call at a place of
\* second
Before(first, second) == \A a \in first, b \in second : a < b

Confirmations ==
    {i \in 1..Len(jam.calls) : jam.calls[i].op = "send" /\ jam.calls[i].who = "ctx"}

(***************************************************************************)
(* C14: creation_flow creates the leaders role and the leaders channel     *)
(* once, before any team role; for each team, one team role and then one   *)
(* team channel, before the next team's role; it posts the jam to the      *)
(* management API once, after the channels of all teams; it sends one      *)
(* confirmation, as its last call; and after a step that failed no         *)
(* confirmation has been sent.                                             *)
(***************************************************************************)
C14_FlowOrder ==
    jam.top = "creation_flow" =>
        LET N == Len(jam.teams)
            LeadersRole == Where("create_role", TEAM_LEADER_ROLE_NAME)
            LeadersChannel == Where("create_text_channel", "team-leaders-chat")
            TeamRole(k) == Where("create_role", TeamName(k))
            TeamChannel(k) == Where("create_text_channel", TeamName(k))
            Posts == Where("post", "codejams")
        IN  /\ Cardinality(LeadersRole) <= 1
            /\ Cardinality(LeadersChannel) <= 1
            /\ Cardinality(Posts) <= 1
            /\ Cardinality(Confirmations) <= 1
            /\ LeadersChannel # {} =>
                   LeadersRole # {} /\ Before(LeadersRole, LeadersChannel)
            /\ \A k \in 1..N :
                   /\ Cardinality(TeamRole(k)) <= 1
                   /\ Cardinality(TeamChannel(k)) <= 1
                   /\ TeamRole(k) # {} =>
                          /\ LeadersChannel # {}
                          /\ Before(LeadersRole, TeamRole(k))
                          /\ Before(LeadersChannel, TeamRole(k))
                   /\ TeamChannel(k) # {} =>
                          TeamRole(k) # {} /\ Before(TeamRole(k), TeamChannel(k))
                   /\ k < N /\ TeamRole(k + 1) # {} =>
                          TeamChannel(k) # {} /\ Before(TeamChannel(k), TeamRole(k + 1))
                   /\ Posts # {} =>
                          TeamChannel(k) # {} /\ Before(TeamChannel(k), Posts)
            /\ Posts # {} => LeadersChannel # {} /\ Before(LeadersChannel, Posts)
            /\ Confirmations # {} =>
                   /\ Posts # {}
                   /\ Confirmations = {Len(jam.calls)}
                   /\ jam.pc = "returned"
            /\ jam.pc = "raised" => Confirmations = {}
            /\ jam.pc = "returned" => Cardinality(Confirmations) = 1

\* the flow has ended for two teams, the confirmation is its last call
C14_Witness ==
    /\ jam.top = "creation_flow"
    /\ jam.pc = "returned"
    /\ Len(jam.teams) = 2
    /\ Where("create_role", TeamName(2)) # {}
    /\ Confirmations = {Len(jam.calls)}

\* the generator indent has ended
Packed == pk.pc = "exhausted"

\* the text of lines one after the other, without blanks and line ends
Content(lines) == Squeeze(Join("", lines))

\* the rendered text of the statement nodes[k], whatever the blanks drawn
RenderedStmt(k) == unparse(pk.nodes[k], "", AnyDraws)

(***************************************************************************)
(* C21: when the packer has ended, the lines it yielded hold the rendered  *)
(* text of every statement of the sequence, once and in the order of the   *)
(* statements, and nothing else: no statement is dropped, repeated or      *)
(* moved, and nothing is left in the buffer.                               *)
(***************************************************************************)
C21_NothingLost ==
    Packed =>
        /\ pk.st.curr_chunk = <<>>
        /\ Content(pk.st.out) =
               Content([k \in 1..Len(pk.nodes) |-> RenderedStmt(k)])

\* the turn of the loop that is about to run is at a block statement
AtBlock ==
    /\ pk.pc = "loop"
    /\ pk.i <= Len(pk.nodes)
    /\ pk.nodes[pk.i].t \notin semicolon_able
    /\ ~PackRaised(pk.st)

(***************************************************************************)
(* C22: the turn of the packer at a block statement yields one line with   *)
(* the text of all the pending simple statements, then one line for each   *)
(* line of the block statement, holding that line alone after the          *)
(* indentation, and leaves curr_chunk and curr_len empty.                  *)
(***************************************************************************)
C22_BlockUnmerged ==
    [][AtBlock /\ pk'.i = pk.i + 1 =>
          LET before == pk.st.out
              after == pk'.st.out
              first == Len(before) + 1
          IN  /\ Len(after) > Len(before)
              /\ SubSeq(after, 1, Len(before)) = before
              /\ Content(<<after[first]>>) = Content(pk.st.curr_chunk)
              /\ \E r \in Draws :
                     LET block == splitlines(unparse(pk.nodes[pk.i], "", r))
                     IN  /\ Len(after) = first + Len(block)
                         /\ \A k \in 1..Len(block) :
                                after[first + k] = Spaces(pk.n) \o block[k]
              /\ pk'.st.curr_chunk = <<>>
              /\ pk'.st.curr_len = 0]_vars

\* x and a conditional have been packed: "x ;" is on a line of its own, the
\* two lines of the conditional follow, the buffer is empty
C22_Witness ==
    /\ pk.pc = "loop"
    /\ pk.i = 3
    /\ pk.nodes[1] = ExprStmt(Nm("x"))
    /\ pk.nodes[2].t = "If"
    /\ Len(pk.st.out) = 3
    /\ Squeeze(pk.st.out[1]) = "x;"
    /\ Squeeze(pk.st.out[2]) = "ifa:"
    /\ pk.st.curr_chunk = <<>>

(***************************************************************************)
(* C23: a simple statement whose rendered text alone is longer than        *)
(* MAX_LINE_LENGTH is on a yielded line that holds the whole statement     *)
(* and no other statement, whatever comes before and after it.             *)
(***************************************************************************)
C23_LongStatementAlone ==
    Packed /\ ~PackRaised(pk.st) =>
        \A k \in 1..Len(pk.nodes) :
            pk.nodes[k].t \in semicolon_able
            /\ Len(RenderedStmt(k)) > MAX_LINE_LENGTH =>
                \E j \in 1..Len(pk.st.out) :
                    Squeeze(pk.st.out[j]) = Squeeze(RenderedStmt(k))

(***************************************************************************)
(* The return expression of blurplify, one call at a time:                 *)
(*     "# coding=UTF-8-NOBOM\n" + invert_indents(unparse(src_ast))         *)
(* for programs with a string constant that has a tab after a line break,  *)
(* and with conditionals side by side and one in the other.                *)
(***************************************************************************)
Programs ==
    << [src |-> "x = \"a\\n\\tb\"",
        ast |-> [t |-> "Module", body |-> <<[t |-> "Assign", lineno |-> 1,
                targets |-> <<[t |-> "Name", id |-> "x"]>>,
                value |-> [t |-> "Constant", is_str |-> TRUE, value |-> "a\n\tb",
                lineno |-> 1, col_offset |-> 4, end_col_offset |-> 12]]>>]],
       [src |-> "x",
        ast |-> [t |-> "Module", body |-> <<[t |-> "Expr", lineno |-> 1,
                value |-> [t |-> "Name", id |-> "x"]]>>]],
       [src |-> "if a:\n    pass",
        ast |-> [t |-> "Module", body |-> <<[t |-> "If", lineno |-> 1,
                test |-> [t |-> "Name", id |-> "a"], body |-> <<[t |-> "Pass",
                lineno |-> 2]>>, orelse |-> <<>>]>>]],
       [src |-> "if a:\n  x\n\nif b:\n  z",
        ast |-> [t |-> "Module", body |-> <<[t |-> "If", lineno |-> 1,
                test |-> [t |-> "Name", id |-> "a"], body |-> <<[t |-> "Expr",
                lineno |-> 2, value |-> [t |-> "Name", id |-> "x"]]>>,
                orelse |-> <<>>], [t |-> "If", lineno |-> 4, test |-> [t |-> "Name",
                id |-> "b"], body |-> <<[t |-> "Expr", lineno |-> 5,
                value |-> [t |-> "Name", id |-> "z"]]>>, orelse |-> <<>>]>>]],
       [src |-> "if a:\n  x\n  if b:\n    y\nz\nif c:\n  w",
        ast |-> [t |-> "Module", body |-> <<[t |-> "If", lineno |-> 1,
                test |-> [t |-> "Name", id |-> "a"], body |-> <<[t |-> "Expr",
                lineno |-> 2, value |-> [t |-> "Name", id |-> "x"]], [t |-> "If",
                lineno |-> 3, test |-> [t |-> "Name", id |-> "b"],
                body |-> <<[t |-> "Expr", lineno |-> 4, value |-> [t |-> "Name",
                id |-> "y"]]>>, orelse |-> <<>>]>>, orelse |-> <<>>], [t |-> "Expr",
                lineno |-> 5, value |-> [t |-> "Name", id |-> "z"]], [t |-> "If",
                lineno |-> 6, test |-> [t |-> "Name", id |-> "c"],
                body |-> <<[t |-> "Expr", lineno |-> 7, value |-> [t |-> "Name",
                id |-> "w"]]>>, orelse |-> <<>>]>>]],
       [src |-> "if a:\n  if b:\n    x\n  y\nz",
        ast |-> [t |-> "Module", body |-> <<[t |-> "If", lineno |-> 1,
                test |-> [t |-> "Name", id |-> "a"], body |-> <<[t |-> "If",
                lineno |-> 2, test |-> [t |-> "Name", id |-> "b"],
                body |-> <<[t |-> "Expr", lineno |-> 3, value |-> [t |-> "Name",
                id |-> "x"]]>>, orelse |-> <<>>], [t |-> "Expr", lineno |-> 4,
                value |-> [t |-> "Name", id |-> "y"]]>>, orelse |-> <<>>],
                [t |-> "Expr", lineno |-> 5, value |-> [t |-> "Name",
                id |-> "z"]]>>]],
       [src |-> "if a:\n  x\nelse:\n  y\nz",
        ast |-> [t |-> "Module", body |-> <<[t |-> "If", lineno |-> 1,
                test |-> [t |-> "Name", id |-> "a"], body |-> <<[t |-> "Expr",
                lineno |-> 2, value |-> [t |-> "Name", id |-> "x"]]>>,
                orelse |-> <<[t |-> "Expr", lineno |-> 4, value |-> [t |-> "Name",
                id |-> "y"]]>>], [t |-> "Expr", lineno |-> 5,
                value |-> [t |-> "Name", id |-> "z"]]>>]] >>

ReturnInit ==
    /\ inv \in {[pc |-> "unparse", src |-> Programs[k].src,
                 src_ast |-> Programs[k].ast, text |-> "", inverted |-> "",
                 result |-> ""] : k \in 1..Len(Programs)}
    /\ source = UNBOUND
    /\ lit = UNUSED /\ ex = UNUSED /\ pk = UNUSED /\ thr = UNUSED
    /\ cmd = UNUSED /\ lock = UNUSED /\ jam = UNUSED

\* unparse(src_ast)
UnparseModule ==
    /\ inv.pc = "unparse"
    /\ \E r \in Draws :
          inv' = [inv EXCEPT !.text = unparse(inv.src_ast, inv.src, r),
                             !.pc = "invert_indents"]
    /\ UNCHANGED <<source, lit, ex, pk, thr, cmd, lock, jam>>

\* invert_indents(...)
InvertIndents ==
    /\ inv.pc = "invert_indents"
    /\ inv' = [inv EXCEPT !.inverted = invert_indents(inv.text), !.pc = "concat"]
    /\ UNCHANGED <<source, lit, ex, pk, thr, cmd, lock, jam>>

\* "# coding=UTF-8-NOBOM\n" + ...
AddCodingLine ==
    /\ inv.pc = "concat"
    /\ inv' = [inv EXCEPT !.result = CODING_LINE \o inv.inverted, !.pc = "returned"]
    /\ UNCHANGED <<source, lit, ex, pk, thr, cmd, lock, jam>>

ReturnNext == UnparseModule \/ InvertIndents \/ AddCodingLine

SpecReturn == ReturnInit /\ [][ReturnNext]_vars

\* the number of spaces a line begins with
RECURSIVE LeadingSpaces(_)
LeadingSpaces(line) ==
    IF line # "" /\ CharAt(line, 1) = " "
    THEN 1 + LeadingSpaces(SubSeq(line, 2, Len(line)))
    ELSE 0

\* the largest number of a non-empty set of numbers
Largest(numbers) == CHOOSE m \in numbers : \A other \in numbers : other <= m

(***************************************************************************)
(* C24: invert_indents turns every line of c leading spaces into M - c     *)
(* spaces followed by the rest of the line as it was, M being the largest  *)
(* number of leading spaces of a line of the text; the lines keep their    *)
(* number and order; and the declaration comment is put in front of the    *)
(* inverted text.                                                          *)
(***************************************************************************)
C24_IndentsInverted ==
    inv.pc \in {"concat", "returned"} =>
        LET lines == splitlines(inv.text)
            out == splitlines(inv.inverted)
            M == Largest({LeadingSpaces(lines[k]) : k \in 1..Len(lines)})
        IN  /\ Len(out) = Len(lines)
            /\ \A k \in 1..Len(lines) :
                   LET c == LeadingSpaces(lines[k])
                   IN  out[k] = Spaces(M - c) \o SubSeq(lines[k], c + 1, Len(lines[k]))
            /\ inv.pc = "returned" => inv.result = CODING_LINE \o inv.inverted

\* what tells the line of a statement from the others: the first line of its
\* text, without blanks
Key(stmt) == Squeeze(splitlines(unparse(stmt, "", AnyDraws))[1])

\* the statements of body and of the blocks in it, each with its nesting depth
RECURSIVE StmtDepths(_, _)
StmtDepths(body, depth) ==
    UNION {{[key |-> Key(body[k]), depth |-> depth]}
           \cup (IF body[k].t = "If"
                 THEN StmtDepths(body[k].body, depth + 1)
                      \cup StmtDepths(body[k].orelse, depth + 1)
                 ELSE {}) : k \in 1..Len(body)}

(***************************************************************************)
(* C25: in the text that unparse returns for a program, two lines that     *)
(* begin a statement have the same number of leading spaces when the       *)
(* statements are at the same nesting depth, and different numbers when    *)
(* they are at different depths.                                           *)
(***************************************************************************)
C25_OneIndentPerDepth ==
    inv.pc # "unparse" =>
        LET lines == splitlines(inv.text)
            marks == StmtDepths(inv.src_ast.body, 0)
        IN  \A i, j \in 1..Len(lines) :
                \A a, b \in marks :
                    a.key = Squeeze(lines[i]) /\ b.key = Squeeze(lines[j]) =>
                        (a.depth = b.depth
                            <=> LeadingSpaces(lines[i]) = LeadingSpaces(lines[j]))

(***************************************************************************)
(* One call of _str_literal_helper: on a string of up to MaxStrLen         *)
(* characters or of up to three pieces among which the triple quotes, and  *)
(* on a tuple of quote types drawn from the four quotes.  lit holds the    *)
(* arguments, the tuple returned, and whether the assert statement held.   *)
(***************************************************************************)
Pieces == {"", "a", "\n", "\\", "'''", "\"\"\""}

PieceStrings == {a \o b \o c : a \in Pieces, b \in Pieces, c \in Pieces}

\* the tuples of one to four different quotes
QuoteTuples ==
    {quotes \in UNION {[1..n -> {ALL_QUOTES[k] : k \in 1..4}] : n \in 1..4} :
        \A i, j \in 1..Len(quotes) : i # j => quotes[i] # quotes[j]}

HelperInit ==
    /\ lit \in [pc : {"called"}, value : StringsUpTo(MaxStrLen) \cup PieceStrings,
                quote_types : QuoteTuples, string : {""}, quotes : {<<>>},
                assert_ok : {TRUE}]
    /\ source = UNBOUND
    /\ ex = UNUSED /\ pk = UNUSED /\ thr = UNUSED /\ cmd = UNUSED /\ lock = UNUSED
    /\ jam = UNUSED /\ inv = UNUSED

\* _str_literal_helper(value, quote_types=quote_types)
StrLiteralHelper ==
    /\ lit.pc = "called"
    /\ LET h == str_literal_helper(lit.value, lit.quote_types, FALSE)
       IN  lit' = [lit EXCEPT !.pc = IF h.assert_ok THEN "returned" ELSE "raised",
                              !.string = h.string, !.quotes = h.quotes,
                              !.assert_ok = h.assert_ok]
    /\ UNCHANGED <<source, ex, pk, thr, cmd, lock, jam, inv>>

SpecHelper == HelperInit /\ [][StrLiteralHelper]_vars

\* the call has returned, and it was made with the default quote types
ReturnedForDefault == lit.pc = "returned" /\ lit.quote_types = ALL_QUOTES

\* the delimiters that can hold the value without an escape: those that do
\* not occur in it
FreeDelimiters == {q \in {ALL_QUOTES[k] : k \in 1..4} : ~Contains(lit.value, q)}

(***************************************************************************)
(* C26: when some delimiter does not occur in the string, the delimiter    *)
(* that _str_literal_helper puts first does not occur in the text it       *)
(* returns; it is a triple quote only when the string has a line break,    *)
(* and a single quote character whenever the string has none.              *)
(***************************************************************************)
C26_DelimiterChoice ==
    ReturnedForDefault /\ FreeDelimiters # {} =>
        LET quote == lit.quotes[1]
        IN  /\ ~Contains(lit.string, quote)
            /\ Len(quote) = 3 => Contains(lit.value, "\n")
            /\ ~Contains(lit.value, "\n") => Len(quote) = 1

C28_AssertHolds ==
    lit.pc # "called" =>
        /\ lit.assert_ok
        /\ lit.pc = "returned"
        /\ LET Allowed(q) == /\ InSeq(q, lit.quote_types)
                             /\ ~Contains(lit.value, q)
                             /\ Contains(lit.value, "\n") => Len(q) = 3
           IN  /\ lit.value # ""
               /\ \E q \in {ALL_QUOTES[k] : k \in 1..4} : Allowed(q)
               /\ CharAt(lit.quotes[1], 1) = LastChar(lit.value)
               => Len(lit.quotes[1]) = 3

\* the string ends with a quote character and is written between the triple
\* quotes of that character, the only quote type allowed: the assert was
\* reached and held
C28_Witness ==
    /\ lit.pc = "returned"
    /\ lit.value = "a'"
    /\ lit.quote_types = <<"'''">>
    /\ lit.quotes = <<"'''">>
    /\ lit.string = "a\\'"

(***************************************************************************)
(* The cog when no invocation is cancelled.  The event loop runs every     *)
(* callback that is ready, the executor gives every queued call to a       *)
(* worker thread, and a call of blurplify that has begun goes on to its    *)
(* end: each step of an invocation that stays possible is taken.  Nothing  *)
(* obliges a user to invoke the command.                                   *)
(***************************************************************************)
\* the steps of invocation i that the event loop takes, and the worker thread
\* taking the call
LoopStep(i) ==
    \/ Acquire(i)
    \/ Wake(i)
    \/ StartWork(i)
    \/ SetSource(i)
    \/ SendError(i)
    \/ SendCode(i)

\* the steps of invocation i that parse, render and take the outcome
WorkStep(i) ==
    \/ ParseSource(i)
    \/ Render(i)
    \/ Resume(i)

\* ENABLED <<WorkStep(i)>>_vars: the guards of the three steps
WorkReady(i) ==
    \/ thr[i].pc = "parse"
    \/ thr[i].pc = "render"
    \/ cmd[i].pc = "await_thread" /\ thr[i].pc = "done"

UncancelledNext ==
    \E i \in DOMAIN cmd :
        \/ \E code \in CogTexts : Invoke(i, code)
        \/ Acquire(i)
        \/ Wake(i)
        \/ StartWork(i)
        \/ SetSource(i)
        \/ ParseSource(i)
        \/ Render(i)
        \/ Resume(i)
        \/ SendError(i)
        \/ SendCode(i)

\* weak fairness of the steps of every invocation; for WorkStep it is written
\* out, as WF_vars(A) is []<>~ENABLED <<A>>_vars \/ []<><<A>>_vars
SpecUncancelled ==
    /\ Init /\ [][UncancelledNext]_vars
    /\ \A i \in 1..NumCalls :
          /\ WF_vars(LoopStep(i))
          /\ []<>~WorkReady(i) \/ []<><<WorkStep(i)>>_vars

\* the calls of _format_code that a worker thread is executing
InThread == {i \in DOMAIN thr : thr[i].pc \in {"assign", "parse", "render"}}

\* the invocations inside `async with self.lock`
InsideLock == {i \in DOMAIN cmd : cmd[i].pc = "await_thread"}

\* the invocations that have left `async with self.lock`, by the three ways out
LeftLock == {i \in DOMAIN cmd : cmd[i].pc \in {"send_code", "send_error", "failed", "done"}}

(***************************************************************************)
(* C29: when no invocation is cancelled, at most one call of _format_code  *)
(* is executed by a worker thread at any time, and the global source holds *)
(* the text of that call from its assignment to the end of its rendering;  *)
(* the lock is held only by an invocation that is inside the `async with`, *)
(* so it is released when the call returns, raises SyntaxError or raises   *)
(* anything else; and every invocation that waits for the lock gets it.    *)
(***************************************************************************)
C29_OneFormatterAtATime ==
    /\ [](/\ Cardinality(InThread) <= 1
          /\ InThread \subseteq InsideLock
          /\ \A i \in InThread :
                thr[i].pc \in {"parse", "render"} => source = Bound(thr[i].src)
          /\ lock.locked => Cardinality(InsideLock) = 1
          /\ \A i \in LeftLock : i \notin InsideLock /\ thr[i].pc = "done")
    /\ \A i \in 1..NumCalls :
          cmd[i].pc \in {"acquire", "waiting"} ~> cmd[i].pc = "await_thread"

\* one invocation waits for the lock while the call of the other is rendering
C29_Witness ==
    \E i, j \in DOMAIN cmd :
        /\ cmd[i].pc = "await_thread" /\ thr[i].pc = "render"
        /\ cmd[j].pc = "waiting" /\ lock.waiters = <<j>>
        /\ lock.locked

(***************************************************************************)
(* move_flow.  The management system holds, for the member, the team the   *)
(* member is in (0: none) and whether the member leads it; Discord holds   *)
(* the team roles of the member.  jam is the coroutine: pc its next await, *)
(* team and team_to_move_in what the two lookups returned, sent the        *)
(* message it has sent, at_call the team of the member when it was called. *)
(* A request to the management system succeeds or raises ResponseCodeError *)
(* with one of the statuses the code tells apart; a call to Discord        *)
(* succeeds or raises.                                                     *)
(***************************************************************************)
MaxJamTeams == 3

JamTeamIds == 1..MaxJamTeams

\* team["discord_role_id"], of team k
discord_role_id(k) == 100 + k

\* the names one can ask for: those of the teams of the jam, and another one
TeamNames == {TeamName(k) : k \in JamTeamIds} \cup {"team-x"}

\* teams/find: the team of the jam with that name, 0 when there is none
find_team(name) ==
    IF \E k \in JamTeamIds : TeamName(k) = name
    THEN CHOOSE k \in JamTeamIds : TeamName(k) = name
    ELSE 0

\* the statuses of a ResponseCodeError
ErrorStatuses == {400, 404, 500}

NOT_PARTICIPANT == ":x: It seems like the user is not a participant!"
NO_SUCH_TEAM == ":x: Team does not exist in the current jam!"
ALREADY_IN == ":x: user is already in the team"
NOT_FOUND == ":x: Team or user could not be found!"
NOT_PART_OF_TEAM == ":x: The member given is not part of the team! (Might have been removed already)"
WENT_WRONG == "Something went wrong while processing the request! We have notified the team!"
MOVED == "Success! Participant has been moved"

\* move_flow is called for a member who holds the role of the team the
\* management system has the member in, or who is in no team
MoveInit ==
    /\ jam \in {[pc |-> "get_current_team",
                 new_team_name |-> name,
                 member_team |-> k,
                 member_is_leader |-> leader,
                 roles |-> IF k = 0 THEN {} ELSE {discord_role_id(k)},
                 team |-> 0, team_to_move_in |-> 0, is_leader |-> FALSE,
                 sent |-> "", at_call |-> k] :
                    name \in TeamNames, k \in {0} \cup JamTeamIds,
                    leader \in BOOLEAN}
    /\ jam.member_team = 0 => ~jam.member_is_leader
    /\ OnlyJam

\* the message of an except clause, for the statuses it tells apart
error_message(status, told_apart) ==
    IF status \in DOMAIN told_apart THEN told_apart[status] ELSE WENT_WRONG

\* team = await bot.code_jam_mgmt_api.get(f"users/{member.id}/current_team")
GetCurrentTeam ==
    /\ jam.pc = "get_current_team"
    /\ \/ /\ jam.member_team # 0
          /\ jam' = [jam EXCEPT !.pc = "find_team", !.team = jam.member_team,
                                !.is_leader = jam.member_is_leader]
       \/ \E status \in ErrorStatuses :
             /\ status = 404 <=> jam.member_team = 0
             /\ jam' = [jam EXCEPT !.pc = "returned",
                           !.sent = error_message(status, 404 :> NOT_PARTICIPANT)]
    /\ UNCHANGED <<source, lit, ex, pk, thr, cmd, lock, inv>>

\* team_to_move_in = await bot.code_jam_mgmt_api.get("teams/find", ...), and
\* the comparison of the two names
FindTeam ==
    /\ jam.pc = "find_team"
    /\ \/ /\ find_team(jam.new_team_name) # 0
          /\ jam' = IF find_team(jam.new_team_name) = jam.team
                    THEN [jam EXCEPT !.pc = "returned", !.sent = ALREADY_IN,
                                     !.team_to_move_in = find_team(jam.new_team_name)]
                    ELSE [jam EXCEPT !.pc = "delete",
                                     !.team_to_move_in = find_team(jam.new_team_name)]
       \/ \E status \in ErrorStatuses :
             /\ status = 404 <=> find_team(jam.new_team_name) = 0
             /\ jam' = [jam EXCEPT !.pc = "returned",
                           !.sent = error_message(status, 404 :> NO_SUCH_TEAM)]
    /\ UNCHANGED <<source, lit, ex, pk, thr, cmd, lock, inv>>

\* await bot.code_jam_mgmt_api.delete(f"teams/{...}/users/{...}")
DeleteFromTeam ==
    /\ jam.pc = "delete"
    /\ \/ jam' = [jam EXCEPT !.pc = "remove_roles", !.member_team = 0,
                             !.member_is_leader = FALSE]
       \/ \E status \in ErrorStatuses :
             jam' = [jam EXCEPT !.pc = "returned",
                        !.sent = error_message(status,
                                    404 :> NOT_FOUND @@ 400 :> NOT_PART_OF_TEAM)]
    /\ UNCHANGED <<source, lit, ex, pk, thr, cmd, lock, inv>>

\* await member.remove_roles(team_role)
RemoveRoles ==
    /\ jam.pc = "remove_roles"
    /\ \/ jam' = [jam EXCEPT !.pc = "post",
                             !.roles = @ \ {discord_role_id(jam.team)}]
       \/ jam' = [jam EXCEPT !.pc = "raised"]
    /\ UNCHANGED <<source, lit, ex, pk, thr, cmd, lock, inv>>

\* await bot.code_jam_mgmt_api.post(f"teams/{team_to_move_in['id']}/users/{member.id}")
PostToTeam ==
    /\ jam.pc = "post"
    /\ \/ jam' = [jam EXCEPT !.pc = "add_roles", !.member_team = jam.team_to_move_in,
                             !.member_is_leader = jam.is_leader]
       \/ \E status \in ErrorStatuses :
             jam' = [jam EXCEPT !.pc = "returned",
                        !.sent = error_message(status,
                                    404 :> NOT_FOUND @@ 400 :> ALREADY_IN)]
    /\ UNCHANGED <<source, lit, ex, pk, thr, cmd, lock, inv>>

\* await member.add_roles(...), and the message of success
AddRoles ==
    /\ jam.pc = "add_roles"
    /\ \/ jam' = [jam EXCEPT !.pc = "returned", !.sent = MOVED,
                             !.roles = @ \cup {discord_role_id(jam.team_to_move_in)}]
       \/ jam' = [jam EXCEPT !.pc = "raised"]
    /\ UNCHANGED <<source, lit, ex, pk, thr, cmd, lock, inv>>

MoveNext ==
    \/ GetCurrentTeam
    \/ FindTeam
    \/ DeleteFromTeam
    \/ RemoveRoles
    \/ PostToTeam
    \/ AddRoles

SpecMove == MoveInit /\ [][MoveNext]_vars

(***************************************************************************)
(* C30: when move_flow has returned for a member who was in a team, the    *)
(* management system has the member in exactly one team and the member     *)
(* holds the role of that team and no other team role: the team asked for  *)
(* when the flow reported success, the team of before otherwise.           *)
(***************************************************************************)
C30_OneTeamOneRole ==
    jam.pc = "returned" /\ jam.at_call # 0 =>
        /\ jam.member_team # 0
        /\ jam.roles = {discord_role_id(jam.member_team)}
        /\ jam.member_team = IF jam.sent = MOVED THEN find_team(jam.new_team_name)
                             ELSE jam.at_call

====
